---- MODULE Spec2Model ----
(***************************************************************************)
(* Device Logger (src/src/server.js): an Express application that records  *)
(* one Log Entry per page view and per telemetry submission on stdout and, *)
(* when LOG_TO_FILE is set, in two daily files under LOG_DIR.              *)
(*                                                                         *)
(* The model follows Node's execution: one JavaScript thread that runs a   *)
(* handler up to its next await (cur is the request whose code is running, *)
(* 0 when the event loop is idle), a wall clock that advances on its own,  *)
(* and file-system operations that complete later with either outcome.     *)
(***************************************************************************)
EXTENDS Integers, Sequences, FiniteSets, TLC

(***************************************************************************)
(* Bounds of the model.                                                    *)
(***************************************************************************)
MaxReq == 2
MaxTime == 1
TicksPerDay == 1
\* longest x-forwarded-for value drawn character by character
MaxForwarded == 3
\* most POST /api/telemetry one page makes
MaxFetch == 2

ReqIds == 1..MaxReq

(***************************************************************************)
(* JavaScript values.  Every value carries its type as the name of its     *)
(* single field, so that values of different types can be compared.        *)
(* A string is either opaque (str), a sequence of characters (chars, for   *)
(* the strings the code splits and trims), an ISO-8601 timestamp (iso) or  *)
(* a hexadecimal digest (hex).                                             *)
(***************************************************************************)
Undef == [undef |-> TRUE]
Null == [null |-> TRUE]
S(s) == [str |-> s]
C(cs) == [chars |-> cs]
N(n) == [num |-> <<n, 1>>]
Q(n, d) == [num |-> <<n, d>>]
B(b) == [bool |-> b]
A(seq) == [arr |-> seq]
O(f) == [obj |-> f]
EmptyObj == [obj |-> <<>>]

IsStr(v) == DOMAIN v = {"str"}
IsChars(v) == DOMAIN v = {"chars"}
IsNum(v) == DOMAIN v = {"num"}
IsBool(v) == DOMAIN v = {"bool"}
IsArr(v) == DOMAIN v = {"arr"}
IsObj(v) == DOMAIN v = {"obj"}

\* JavaScript truthiness of a value: undefined, null, '', 0 and false are falsy.
Truthy(v) ==
  CASE v = Undef -> FALSE
    [] v = Null -> FALSE
    [] IsStr(v) -> Len(v.str) > 0
    [] IsChars(v) -> Len(v.chars) > 0
    [] IsNum(v) -> v.num[1] /= 0
    [] IsBool(v) -> v.bool
    [] OTHER -> TRUE

\* a ?? b
Coalesce(a, b) == IF a = Undef \/ a = Null THEN b ELSE a

\* String.prototype.toLowerCase on the environment values the model draws.
toLowerCase(s) ==
  CASE s = "TRUE" -> "true"
    [] s = "True" -> "true"
    [] s = "FALSE" -> "false"
    [] OTHER -> s

(***************************************************************************)
(* Configuration read from the environment (server.js:12-16).             *)
(***************************************************************************)
EnvFlags == {Undef, S("true"), S("TRUE"), S("false"), S("1")}
EnvSalts == {Undef, C(<<>>), C(<<"s">>)}

\* (process.env.X ?? dflt).toLowerCase() === 'true'
envFlag(v, dflt) == toLowerCase(Coalesce(v, S(dflt)).str) = "true"

VARIABLES
  phase,          \* "boot", "mkdir", "listen", "serving", "exited"
  IP_HASH_SALT,   \* process.env.IP_HASH_SALT
  LOG_TO_FILE,    \* boolean
  logDirReady,    \* logDirReadyPromise: "null", "pending", "resolved", "failed"
  now,            \* wall clock, in ticks since the epoch
  cur,            \* request whose handler code is running; 0: event loop idle
  req,            \* req[r]: the request, or Undef before it arrives
  pc,             \* pc[r]: position of the handler of request r
  extra,          \* extra[r]: the second argument of logVisit
  entry,          \* entry[r]: the Log Entry built by logVisit
  dateStamp,      \* dateStamp[r]: persistLog's dateStamp
  res,            \* res[r]: the response sent, status 0 when none
  stdout,         \* lines written to process.stdout
  files,          \* files[path]: lines appended to the file
  console,        \* console[r]: console.error / console.warn calls made for
                  \* request r, console[0]: those of the start-up code
  trace,          \* trace[r]: what the handler of r has done, in order
  page            \* the landing page open in a browser, Undef when none is

vars == <<phase, IP_HASH_SALT, LOG_TO_FILE, logDirReady, now, cur, req, pc,
          extra, entry, dateStamp, res, stdout, files, console, trace, page>>


(***************************************************************************)
(* Helpers on sequences of characters.                                     *)
(***************************************************************************)
Whitespace == {" ", "\t"}

MinOf(set) == CHOOSE x \in set : \A y \in set : x <= y
MaxOf(set) == CHOOSE x \in set : \A y \in set : x >= y

\* s.split(',')[0]
splitFirstOf[s \in Seq(STRING)] ==
  LET commas == {i \in 1..Len(s) : s[i] = ","}
  IN IF commas = {} THEN s ELSE SubSeq(s, 1, MinOf(commas) - 1)
splitFirst(s) == splitFirstOf[s]

\* s.trim()
trimOf[s \in Seq(STRING)] ==
  LET solid == {i \in 1..Len(s) : s[i] \notin Whitespace}
  IN IF solid = {} THEN <<>> ELSE SubSeq(s, MinOf(solid), MaxOf(solid))
trim(s) == trimOf[s]

\* s.startsWith(p)
startsWith(s, p) == Len(s) >= Len(p) /\ SubSeq(s, 1, Len(p)) = p

\* s.slice(n)
sliceFrom(s, n) == SubSeq(s, n + 1, Len(s))

MappedPrefix == <<":", ":", "f", "f", "f", "f", ":">>

(***************************************************************************)
(* normalizeIp, resolveClientIp, hashIp, selectHeaders (server.js:167-207) *)
(***************************************************************************)
normalizeIp(rawIp) ==
  IF ~Truthy(rawIp) THEN C(<<>>)
  ELSE LET first == trim(splitFirst(rawIp.chars))
       IN IF startsWith(first, MappedPrefix)
            THEN C(sliceFrom(first, Len(MappedPrefix)))
            ELSE C(first)

\* headers[name], undefined when the request does not carry the header
header(headers, name) == IF name \in DOMAIN headers THEN headers[name] ELSE Undef

\* forwarded.find((value) => typeof value === 'string' && value.trim().length > 0) ?? ''
findForwarded(list) ==
  LET hits == {i \in 1..Len(list) : IsChars(list[i]) /\ Len(trim(list[i].chars)) > 0}
  IN IF hits = {} THEN C(<<>>) ELSE list[MinOf(hits)]

resolveClientIp(q) ==
  LET forwarded == header(q.headers, "x-forwarded-for")
      candidate ==
        IF IsArr(forwarded) THEN findForwarded(forwarded.arr)
        ELSE IF IsChars(forwarded) /\ Len(trim(forwarded.chars)) > 0 THEN forwarded
        ELSE C(<<>>)
  IN IF Truthy(candidate) THEN normalizeIp(candidate)
     ELSE normalizeIp(Coalesce(q.remoteAddress, C(<<>>)))

\* crypto.createHash('sha256') ... digest('hex'): sha256 as an injective
\* function of the bytes fed to it, in hexadecimal
sha256Hex(bytes) == [hex |-> bytes]

\* hashIp feeding the hash with the address alone
hashIpUnsalted(ip) ==
  IF ~Truthy(ip) THEN Null ELSE sha256Hex(ip.chars)

\* hash.update(ip); hash.update(IP_HASH_SALT)
hashIp(ip) ==
  IF ~Truthy(ip) THEN Null ELSE sha256Hex(ip.chars \o IP_HASH_SALT.chars)

AllowedHeaders == <<"user-agent", "referer", "accept-language">>

\* selectHeaders giving every name of the list a value, null when absent
selectHeadersNullFilled(headers) ==
  O([k \in {AllowedHeaders[i] : i \in 1..Len(AllowedHeaders)} |->
       IF Truthy(header(headers, k)) THEN headers[k] ELSE Null])

selectHeaders(headers) ==
  LET kept == {AllowedHeaders[i] : i \in {j \in 1..Len(AllowedHeaders) :
                  Truthy(header(headers, AllowedHeaders[j]))}}
  IN O([k \in kept |-> headers[k]])

(***************************************************************************)
(* ua-parser-js: an external classifier, kept as an uninterpreted function *)
(* of the user-agent string; sanitizeUAResult (server.js:259-268) keeps    *)
(* the five parsed parts and drops the raw string.                         *)
(***************************************************************************)
UAParts == {"browser", "engine", "os", "device", "cpu"}

UAParser(ua) ==
  [k \in UAParts \cup {"ua"} |->
     IF k = "ua" THEN ua
     ELSE IF Truthy(ua) THEN O([name |-> [parsed |-> <<k, ua.str>>]])
     ELSE O([name |-> Undef])]

sanitizeUAResult(result) == O([k \in UAParts |-> result[k]])

(***************************************************************************)
(* Dates (server.js:279-280, 299).                                         *)
(***************************************************************************)
\* new Date().toISOString() at clock value t
toISOString(t) == [iso |-> <<t \div TicksPerDay, t % TicksPerDay>>]

\* isoString.slice(0, 10): the YYYY-MM-DD part
sliceDate(isoString) == [date |-> isoString.iso[1]]

(***************************************************************************)
(* JSON.stringify: the value as it reads back from the text, that is with  *)
(* the object members whose value is undefined left out and undefined      *)
(* array elements written as null.                                         *)
(***************************************************************************)
RECURSIVE stringify(_)
stringify(v) ==
  IF IsObj(v)
    THEN O([k \in {m \in DOMAIN v.obj : v.obj[m] /= Undef} |-> stringify(v.obj[k])])
  ELSE IF IsArr(v)
    THEN A([i \in 1..Len(v.arr) |->
              IF v.arr[i] = Undef THEN Null ELSE stringify(v.arr[i])])
  ELSE v

\* `${JSON.stringify(entry)}\n`
jsonLine(e) == [json |-> stringify(e), eol |-> "\n"]

(***************************************************************************)
(* zod schemas as data, and the parse of a value against one               *)
(* (server.js:58-165).  Every object schema of the program is strict.      *)
(***************************************************************************)
zString(min, max) == [z |-> "string", min |-> min, max |-> max]
\* lower: "none", "positive" (> 0), "nonnegative" (>= 0); max: -1 when none
zNumber(int, lower, max) == [z |-> "number", int |-> int, lower |-> lower, max |-> max]
zBoolean == [z |-> "boolean"]
zArray(element, max) == [z |-> "array", element |-> element, max |-> max]
zObject(shape) == [z |-> "object", shape |-> shape]
zOptional(inner) == [z |-> "optional", inner |-> inner]

K(k) == [key |-> k]
I(i) == [idx |-> i]
Issue(path, code) == [path |-> path, code |-> code]
\* the issue of a strict object: it carries the keys the shape does not name
Unrecognized(path, keys) == [path |-> path, code |-> "unrecognized_keys", keys |-> keys]

member(v, k) == IF k \in DOMAIN v.obj THEN v.obj[k] ELSE Undef

numberIssues(sc, v, path) ==
  LET n == v.num[1]
      d == v.num[2]
  IN (IF sc.int /\ n % d /= 0 THEN {Issue(path, "invalid_type")} ELSE {})
     \cup (IF sc.lower = "positive" /\ n <= 0 THEN {Issue(path, "too_small")} ELSE {})
     \cup (IF sc.lower = "nonnegative" /\ n < 0 THEN {Issue(path, "too_small")} ELSE {})
     \cup (IF sc.max >= 0 /\ n > sc.max * d THEN {Issue(path, "too_big")} ELSE {})

stringIssues(sc, v, path) ==
  (IF Len(v.str) < sc.min THEN {Issue(path, "too_small")} ELSE {})
  \cup (IF Len(v.str) > sc.max THEN {Issue(path, "too_big")} ELSE {})

\* a parse that takes every member as optional: a missing value is no issue
RECURSIVE issuesAllOptional(_, _, _)
issuesAllOptional(sc, v, path) ==
  CASE v = Undef -> {}
    [] sc.z = "optional" -> issuesAllOptional(sc.inner, v, path)
    [] sc.z = "string" ->
         IF ~IsStr(v) THEN {Issue(path, "invalid_type")} ELSE stringIssues(sc, v, path)
    [] sc.z = "number" ->
         IF ~IsNum(v) THEN {Issue(path, "invalid_type")} ELSE numberIssues(sc, v, path)
    [] sc.z = "boolean" ->
         IF ~IsBool(v) THEN {Issue(path, "invalid_type")} ELSE {}
    [] sc.z = "array" ->
         IF ~IsArr(v) THEN {Issue(path, "invalid_type")}
         ELSE (IF Len(v.arr) > sc.max THEN {Issue(path, "too_big")} ELSE {})
              \cup UNION {issuesAllOptional(sc.element, v.arr[i], Append(path, I(i))) :
                            i \in 1..Len(v.arr)}
    [] sc.z = "object" ->
         IF ~IsObj(v) THEN {Issue(path, "invalid_type")}
         ELSE UNION {issuesAllOptional(sc.shape[k], member(v, k), Append(path, K(k))) :
                       k \in DOMAIN sc.shape}
              \cup (IF DOMAIN v.obj \subseteq DOMAIN sc.shape THEN {}
                    ELSE {Unrecognized(path, DOMAIN v.obj \ DOMAIN sc.shape)})

RECURSIVE issues(_, _, _)
issues(sc, v, path) ==
  CASE sc.z = "optional" ->
         IF v = Undef THEN {} ELSE issues(sc.inner, v, path)
    [] sc.z = "string" ->
         IF ~IsStr(v) THEN {Issue(path, "invalid_type")} ELSE stringIssues(sc, v, path)
    [] sc.z = "number" ->
         IF ~IsNum(v) THEN {Issue(path, "invalid_type")} ELSE numberIssues(sc, v, path)
    [] sc.z = "boolean" ->
         IF ~IsBool(v) THEN {Issue(path, "invalid_type")} ELSE {}
    [] sc.z = "array" ->
         IF ~IsArr(v) THEN {Issue(path, "invalid_type")}
         ELSE (IF Len(v.arr) > sc.max THEN {Issue(path, "too_big")} ELSE {})
              \cup UNION {issues(sc.element, v.arr[i], Append(path, I(i))) :
                            i \in 1..Len(v.arr)}
    [] sc.z = "object" ->
         IF ~IsObj(v) THEN {Issue(path, "invalid_type")}
         ELSE UNION {issues(sc.shape[k], member(v, k), Append(path, K(k))) :
                       k \in DOMAIN sc.shape}
              \cup (IF DOMAIN v.obj \subseteq DOMAIN sc.shape THEN {}
                    ELSE {Unrecognized(path, DOMAIN v.obj \ DOMAIN sc.shape)})

\* the value a successful parse returns: objects and arrays are rebuilt from
\* the members the schema names
RECURSIVE parsed(_, _)
parsed(sc, v) ==
  CASE sc.z = "optional" -> IF v = Undef THEN Undef ELSE parsed(sc.inner, v)
    [] sc.z = "array" -> A([i \in 1..Len(v.arr) |-> parsed(sc.element, v.arr[i])])
    [] sc.z = "object" ->
         O([k \in DOMAIN sc.shape \cap DOMAIN v.obj |-> parsed(sc.shape[k], v.obj[k])])
    [] OTHER -> v

\* the message of an issue: it tells what is wrong and, for unrecognized
\* keys, which keys; it never holds the path
messageOf(i) ==
  IF i.code = "unrecognized_keys" THEN [message |-> i.code, keys |-> i.keys]
  ELSE [message |-> i.code]

\* every message reported as a form error
flattenToForm(found) ==
  O([formErrors |-> [messages |-> {messageOf(i) : i \in found}],
     fieldErrors |-> EmptyObj])

\* ZodError.flatten(): the messages of the issues at the root in formErrors,
\* those of the others in fieldErrors under the first element of their path
flatten(found) ==
  LET below == {i \in found : i.path /= <<>>}
  IN O([formErrors |-> [messages |-> {messageOf(i) : i \in found \ below}],
        fieldErrors |->
          O([k \in {i.path[1].key : i \in below} |->
               [messages |-> {messageOf(i) : i \in {j \in below : j.path[1].key = k}}]])])

telemetrySchema ==
  zObject([
    identifiers |-> zObject([
      sessionId |-> zString(1, 128),
      visitorId |-> zString(1, 128),
      deviceFingerprint |-> zString(1, 256),
      navigatorFingerprint |-> zString(1, 256)]),
    system |-> zObject([
      platform |-> zOptional(zString(1, 128)),
      os |-> zOptional(zString(1, 128)),
      osVersion |-> zOptional(zString(1, 128)),
      architecture |-> zOptional(zString(1, 64)),
      hardwareConcurrency |-> zOptional(zNumber(TRUE, "positive", 1024)),
      deviceMemory |-> zOptional(zNumber(FALSE, "positive", 4096)),
      userAgent |-> zOptional(zString(1, 2048)),
      localTime |-> zOptional(zString(1, 128)),
      language |-> zOptional(zString(1, 64)),
      languages |-> zOptional(zArray(zString(1, 64), 32))]),
    network |-> zObject([
      connectionType |-> zOptional(zString(1, 64)),
      effectiveType |-> zOptional(zString(1, 64)),
      downlink |-> zOptional(zNumber(FALSE, "nonnegative", 10000)),
      rtt |-> zOptional(zNumber(FALSE, "nonnegative", 100000)),
      saveData |-> zOptional(zBoolean)]),
    hardware |-> zObject([
      screen |-> zObject([
        width |-> zNumber(TRUE, "nonnegative", -1),
        height |-> zNumber(TRUE, "nonnegative", -1),
        colorDepth |-> zOptional(zNumber(TRUE, "nonnegative", -1)),
        pixelDepth |-> zOptional(zNumber(TRUE, "nonnegative", -1))]),
      viewport |-> zOptional(zObject([
        width |-> zNumber(TRUE, "nonnegative", -1),
        height |-> zNumber(TRUE, "nonnegative", -1)])),
      pixelRatio |-> zOptional(zNumber(FALSE, "positive", 10)),
      touchSupport |-> zOptional(zObject([
        maxTouchPoints |-> zNumber(TRUE, "nonnegative", 100),
        touchEvent |-> zBoolean,
        pointerEvent |-> zBoolean])),
      gpu |-> zOptional(zObject([
        vendor |-> zOptional(zString(1, 256)),
        renderer |-> zOptional(zString(1, 512))])),
      battery |-> zOptional(zObject([
        charging |-> zOptional(zBoolean),
        chargingTime |-> zOptional(zNumber(FALSE, "nonnegative", -1)),
        dischargingTime |-> zOptional(zNumber(FALSE, "nonnegative", -1)),
        level |-> zOptional(zNumber(FALSE, "nonnegative", 1))])),
      audioDevices |-> zOptional(zNumber(TRUE, "nonnegative", -1)),
      videoDevices |-> zOptional(zNumber(TRUE, "nonnegative", -1))]),
    features |-> zObject([
      cookiesEnabled |-> zOptional(zBoolean),
      javaScriptEnabled |-> zOptional(zBoolean),
      serviceWorkerStatus |-> zOptional(zString(1, 64)),
      mediaDevices |-> zOptional(zBoolean),
      storageEstimate |-> zOptional(zObject([
        quota |-> zOptional(zNumber(FALSE, "nonnegative", -1)),
        usage |-> zOptional(zNumber(FALSE, "nonnegative", -1))]))]),
    activityLog |-> zOptional(zArray(zObject([
      timestamp |-> zString(1, 64),
      message |-> zString(1, 256)]), 256)),
    consentGranted |-> zOptional(zBoolean)])

(***************************************************************************)
(* formatTextLogEntry (server.js:217-257): the block as its list of lines. *)
(***************************************************************************)
KnownFields == {"timestamp", "method", "path", "hashedIp", "headers",
                "userAgent", "event", "telemetry"}

TextLine(label, value) == [label |-> label, value |-> value]
Heading(label) == [label |-> label]
\* indentBlock(JSON.stringify(v, null, 2))
Pretty(v) == [indent |-> 2, json |-> stringify(v)]

\* the block with the event line after the telemetry snapshot
formatTextLogEntryEventLast(e) ==
  LET timestamp == member(e, "timestamp")
      method == member(e, "method")
      requestPath == member(e, "path")
      hashedIp == member(e, "hashedIp")
      headers == member(e, "headers")
      userAgent == member(e, "userAgent")
      event == member(e, "event")
      telemetry == member(e, "telemetry")
      rest == [k \in DOMAIN e.obj \ KnownFields |-> e.obj[k]]
      requestLine == SelectSeq(<<Coalesce(method, S("UNKNOWN")),
                                 Coalesce(requestPath, S(""))>>, Truthy)
      lines ==
        << TextLine("Timestamp: ", Coalesce(timestamp, S("Unknown"))),
           TextLine("Request: ",
                    IF requestLine = <<>> THEN S("Unavailable") ELSE A(requestLine)),
           TextLine("Hashed IP: ", Coalesce(hashedIp, S("Unavailable"))),
           Heading("Selected Headers:"),
           Pretty(Coalesce(headers, EmptyObj)),
           Heading("Parsed User Agent:"),
           Pretty(Coalesce(userAgent, EmptyObj)) >>
        \o (IF Truthy(telemetry)
              THEN <<Heading("Telemetry Snapshot:"), Pretty(telemetry)>> ELSE <<>>)
        \o (IF Truthy(event) THEN <<TextLine("Event: ", event)>> ELSE <<>>)
        \o (IF DOMAIN rest /= {}
              THEN <<Heading("Additional Fields:"), Pretty(O(rest))>> ELSE <<>>)
        \o <<Heading("-----")>>
  IN [lines |-> lines, eol |-> "\n"]

formatTextLogEntry(e) ==
  LET timestamp == member(e, "timestamp")
      method == member(e, "method")
      requestPath == member(e, "path")
      hashedIp == member(e, "hashedIp")
      headers == member(e, "headers")
      userAgent == member(e, "userAgent")
      event == member(e, "event")
      telemetry == member(e, "telemetry")
      rest == [k \in DOMAIN e.obj \ KnownFields |-> e.obj[k]]
      requestLine == SelectSeq(<<Coalesce(method, S("UNKNOWN")),
                                 Coalesce(requestPath, S(""))>>, Truthy)
      lines ==
        << TextLine("Timestamp: ", Coalesce(timestamp, S("Unknown"))),
           TextLine("Request: ",
                    IF requestLine = <<>> THEN S("Unavailable") ELSE A(requestLine)),
           TextLine("Hashed IP: ", Coalesce(hashedIp, S("Unavailable"))),
           Heading("Selected Headers:"),
           Pretty(Coalesce(headers, EmptyObj)),
           Heading("Parsed User Agent:"),
           Pretty(Coalesce(userAgent, EmptyObj)) >>
        \o (IF Truthy(event) THEN <<TextLine("Event: ", event)>> ELSE <<>>)
        \o (IF Truthy(telemetry)
              THEN <<Heading("Telemetry Snapshot:"), Pretty(telemetry)>> ELSE <<>>)
        \o (IF DOMAIN rest /= {}
              THEN <<Heading("Additional Fields:"), Pretty(O(rest))>> ELSE <<>>)
        \o <<Heading("-----")>>
  IN [lines |-> lines, eol |-> "\n"]

(***************************************************************************)
(* buildBaseLog and the entry of logVisit (server.js:298-319).             *)
(***************************************************************************)
\* buildBaseLog keeping the resolved address next to its digest
buildBaseLogWithIp(q, t) ==
  O([timestamp |-> toISOString(t),
     method |-> q.method,
     path |-> q.originalUrl,
     ip |-> resolveClientIp(q),
     hashedIp |-> hashIp(resolveClientIp(q)),
     headers |-> selectHeaders(q.headers),
     userAgent |-> sanitizeUAResult(
                     UAParser(Coalesce(header(q.headers, "user-agent"), S(""))))])

buildBaseLog(q, t) ==
  O([timestamp |-> toISOString(t),
     method |-> q.method,
     path |-> q.originalUrl,
     hashedIp |-> hashIp(resolveClientIp(q)),
     headers |-> selectHeaders(q.headers),
     userAgent |-> sanitizeUAResult(
                     UAParser(Coalesce(header(q.headers, "user-agent"), S(""))))])

\* { ...base, ...extra }
spread(base, more) == O(more.obj @@ base.obj)

(***************************************************************************)
(* Requests, as they reach the routes: the body is req.body after          *)
(* express.json, an empty object when the request has none.                *)
(***************************************************************************)
MinimalBody ==
  O([identifiers |-> O([sessionId |-> S("s"), visitorId |-> S("v"),
                        deviceFingerprint |-> S("d"),
                        navigatorFingerprint |-> S("n")]),
     system |-> EmptyObj,
     network |-> EmptyObj,
     hardware |-> O([screen |-> O([width |-> N(1), height |-> N(2)])]),
     features |-> EmptyObj])

RichBody ==
  O([identifiers |-> MinimalBody.obj.identifiers,
     system |-> O([hardwareConcurrency |-> N(8), deviceMemory |-> Q(1, 2),
                   languages |-> A(<<S("en")>>)]),
     network |-> O([saveData |-> B(FALSE)]),
     hardware |-> MinimalBody.obj.hardware,
     features |-> EmptyObj,
     activityLog |-> A(<<O([timestamp |-> S("t"), message |-> S("m")])>>),
     consentGranted |-> B(TRUE)])

\* an unknown key next to a conformant payload
UnknownKeyBody == O([extra |-> N(1)] @@ MinimalBody.obj)

\* a value outside its range inside a nested object
NegativeWidthBody ==
  O([hardware |-> O([screen |-> O([width |-> N(-1), height |-> N(2)])])]
    @@ MinimalBody.obj)

Bodies == {EmptyObj, MinimalBody, RichBody, UnknownKeyBody, NegativeWidthBody}

\* a payload with every nested object present
FullBody ==
  O([identifiers |-> MinimalBody.obj.identifiers,
     system |-> O([platform |-> S("p"), architecture |-> S("x64"),
                   hardwareConcurrency |-> N(8), deviceMemory |-> Q(1, 2),
                   languages |-> A(<<S("en")>>)]),
     network |-> O([rtt |-> N(50), saveData |-> B(FALSE)]),
     hardware |-> O([screen |-> O([width |-> N(1), height |-> N(2)]),
                     viewport |-> O([width |-> N(1), height |-> N(2)]),
                     pixelRatio |-> N(2),
                     touchSupport |-> O([maxTouchPoints |-> N(0), touchEvent |-> B(FALSE),
                                         pointerEvent |-> B(TRUE)]),
                     battery |-> O([charging |-> B(TRUE), level |-> Q(1, 2)])]),
     features |-> O([cookiesEnabled |-> B(TRUE),
                     storageEstimate |-> O([quota |-> N(9), usage |-> N(1)])]),
     activityLog |-> A(<<O([timestamp |-> S("t"), message |-> S("m")])>>),
     consentGranted |-> B(FALSE)])

\* the value with x at the path
RECURSIVE Put(_, _, _)
Put(v, path, x) ==
  IF path = <<>> THEN x
  ELSE LET h == Head(path)
       IN IF "key" \in DOMAIN h
            THEN O((h.key :> Put(member(v, h.key), Tail(path), x)) @@ v.obj)
            ELSE A([v.arr EXCEPT ![h.idx] = Put(@, Tail(path), x)])

At(path, x) == [path |-> path, value |-> x]
Strings(n) == A([i \in 1..n |-> S("en")])
Longest64 == S("aaaaaaaaaaaaaaaaaaaaaaaaaaaaaaaaaaaaaaaaaaaaaaaaaaaaaaaaaaaaaaaa")
TooLong64 == S("aaaaaaaaaaaaaaaaaaaaaaaaaaaaaaaaaaaaaaaaaaaaaaaaaaaaaaaaaaaaaaaaa")

\* values at the edge of what the schema allows
Edges ==
  {At(<<K("system"), K("architecture")>>, Longest64),
   At(<<K("system"), K("languages")>>, Strings(32)),
   At(<<K("system"), K("hardwareConcurrency")>>, N(1024)),
   At(<<K("network"), K("rtt")>>, N(0)),
   At(<<K("hardware"), K("screen"), K("width")>>, N(0)),
   At(<<K("hardware"), K("battery"), K("level")>>, N(1)),
   At(<<K("hardware"), K("pixelRatio")>>, N(10)),
   At(<<K("activityLog")>>, A(<<>>))}

\* a value of another type at the path
WrongTypes ==
  {At(<<K("consentGranted")>>, S("yes")),
   At(<<K("identifiers")>>, S("x")),
   At(<<K("system"), K("platform")>>, N(1)),
   At(<<K("network"), K("saveData")>>, Null),
   At(<<K("hardware"), K("screen"), K("width")>>, S("1")),
   At(<<K("hardware"), K("touchSupport"), K("touchEvent")>>, N(1)),
   At(<<K("activityLog"), I(1), K("message")>>, B(TRUE))}
\* a string too short or too long, an array too long
WrongSizes ==
  {At(<<K("identifiers"), K("sessionId")>>, S("")),
   At(<<K("system"), K("architecture")>>, TooLong64),
   At(<<K("system"), K("languages")>>, Strings(33)),
   At(<<K("system"), K("languages"), I(1)>>, TooLong64),
   At(<<K("activityLog"), I(1), K("timestamp")>>, TooLong64)}
\* a number outside its range, or a fraction where an integer is declared
WrongNumbers ==
  {At(<<K("system"), K("hardwareConcurrency")>>, N(0)),
   At(<<K("system"), K("hardwareConcurrency")>>, Q(3, 2)),
   At(<<K("system"), K("deviceMemory")>>, N(4097)),
   At(<<K("network"), K("rtt")>>, N(100001)),
   At(<<K("network"), K("downlink")>>, N(-1)),
   At(<<K("hardware"), K("pixelRatio")>>, N(11)),
   At(<<K("hardware"), K("screen"), K("width")>>, N(-1)),
   At(<<K("hardware"), K("viewport"), K("height")>>, Q(1, 2)),
   At(<<K("hardware"), K("battery"), K("level")>>, N(2)),
   At(<<K("features"), K("storageEstimate"), K("usage")>>, N(-1))}
\* a key no shape names, at each depth
UnknownKeys ==
  {At(<<K("extra")>>, N(1)),
   At(<<K("system"), K("extra")>>, S("x")),
   At(<<K("hardware"), K("screen"), K("extra")>>, N(1)),
   At(<<K("features"), K("storageEstimate"), K("extra")>>, B(TRUE)),
   At(<<K("activityLog"), I(1), K("extra")>>, S("x"))}
Faults == WrongTypes \cup WrongSizes \cup WrongNumbers \cup UnknownKeys

Faulty(f) == Put(FullBody, f.path, f.value)
ConformingBodies ==
  {MinimalBody, RichBody, FullBody} \cup {Put(FullBody, e.path, e.value) : e \in Edges}
FaultyBodies == {Faulty(f) : f \in Faults}

\* the bodies of the requests of Spec
SentBodies == {EmptyObj, MinimalBody}

NoHeaders == <<>>
ProxyHeaders ==
  ("user-agent" :> S("UA")) @@ ("cookie" :> S("c"))
  @@ ("x-forwarded-for" :> C(<<" ", "7", ",", "8">>))
HeaderSets == {NoHeaders, ProxyHeaders}

Request(method, url, headers, body) ==
  [method |-> S(method), originalUrl |-> S(url), headers |-> headers,
   remoteAddress |-> C(<<"9">>), body |-> body]

PageRequests == {Request("GET", "/", ProxyHeaders, EmptyObj)}
TelemetryRequests ==
  {Request("POST", "/api/telemetry", NoHeaders, b) : b \in SentBodies}
\* what express.json passes to next() in place of setting req.body: the body
\* is not JSON, or is longer than the 10kb limit
ParseFailures == {[failed |-> "entity.parse.failed"], [failed |-> "entity.too.large"]}
\* the payloads the Validator is tried on
ValidatorRequests ==
  {Request("POST", "/api/telemetry", NoHeaders, b) :
     b \in ConformingBodies \cup FaultyBodies}
Requests ==
  {Request("GET", u, NoHeaders, EmptyObj) : u \in {"/healthz", "/nope"}}
  \cup PageRequests \cup TelemetryRequests

\* every request of Requests, and each of them with a body express.json fails on
ErrorRequests ==
  Requests \cup {[q EXCEPT !.body = f] : q \in Requests, f \in ParseFailures}

\* the request as it arrives from another socket address
From(q, address) == [q EXCEPT !.remoteAddress = address]
\* the request with one more header
WithHeader(q, name, value) == [q EXCEPT !.headers = (name :> value) @@ @]

\* x-forwarded-for values: every string of blanks, commas and a digit up to
\* MaxForwarded characters, IPv4-mapped addresses, and the array form
ForwardedChars == {" ", ",", "7"}
ForwardedStrings ==
  {C(cs) : cs \in UNION {[1..n -> ForwardedChars] : n \in 0..MaxForwarded}}
  \cup {C(MappedPrefix \o <<"7">>), C(<<" ">> \o MappedPrefix \o <<"7", ",", "8">>)}
ForwardedArrays ==
  {A(<<>>), A(<<C(<<>>), C(<<" ">>), C(<<"7", ",", "8">>)>>),
   A(<<N(1), C(<<",", "7">>)>>), A(<<C(<<" ">>)>>)}
SocketAddresses == {Undef, C(<<>>), C(<<"9">>), C(MappedPrefix \o <<"9">>)}

\* what a request can carry under each name of the allow-list, and elsewhere
HeaderValues ==
  [name \in {"user-agent", "referer", "accept-language", "cookie"} |->
     IF name = "user-agent" THEN {Undef, S(""), S("UA")}
     ELSE IF name = "referer" THEN {Undef, S("R")}
     ELSE IF name = "accept-language" THEN {Undef, S("en")}
     ELSE {Undef, S("c")}]
HeaderChoices ==
  LET values == UNION {HeaderValues[k] : k \in DOMAIN HeaderValues}
      choices == {c \in [DOMAIN HeaderValues -> values] :
                    \A k \in DOMAIN HeaderValues : c[k] \in HeaderValues[k]}
  IN {[name \in {k \in DOMAIN c : c[k] /= Undef} |-> c[name]] : c \in choices}

\* page views under every choice of headers, and under every way of telling
\* the client's address
EntryRequests ==
  {Request("GET", "/", h, EmptyObj) : h \in HeaderChoices}
  \cup {From(Request("GET", "/", ("user-agent" :> S("UA")), EmptyObj), a) :
          a \in SocketAddresses}
  \cup {From(WithHeader(Request("GET", "/", ("user-agent" :> S("UA")), EmptyObj),
                        "x-forwarded-for", f), a) :
          f \in ForwardedStrings \cup ForwardedArrays, a \in SocketAddresses}

\* requests that differ in the address of the client only, or in the way it
\* is told: two page views of client 7, one of client 9, one of no known
\* address, and two submissions
PairSalts == EnvSalts \cup {C(<<"t">>)}
Direct == Request("GET", "/", ("user-agent" :> S("UA")) @@ ("cookie" :> S("c")), EmptyObj)
PairRequests ==
  {WithHeader(Direct, "x-forwarded-for", C(<<" ", "7", ",", "8">>)),
   From(Direct, C(MappedPrefix \o <<"7">>)),
   Direct,
   From(Direct, Undef),
   Request("POST", "/api/telemetry", NoHeaders, MinimalBody),
   WithHeader(Request("POST", "/api/telemetry", NoHeaders, MinimalBody),
              "x-forwarded-for", C(<<"7">>))}

\* the route of server.js:1293-1322 that answers the request
Route(q) ==
  CASE q.body \in ParseFailures -> "error"
    [] q.body \notin ParseFailures /\ q.method = S("GET")
         /\ q.originalUrl = S("/healthz") -> "healthz"
    [] q.body \notin ParseFailures /\ q.method = S("GET")
         /\ q.originalUrl = S("/") -> "root"
    [] q.body \notin ParseFailures /\ q.method = S("POST")
         /\ q.originalUrl = S("/api/telemetry") -> "telemetry"
    [] OTHER -> "notfound"

(***************************************************************************)
(* The state machine.                                                      *)
(***************************************************************************)
config == <<IP_HASH_SALT, LOG_TO_FILE>>
server == <<phase, config, logDirReady, now, cur, req, pc, extra, entry,
           dateStamp, res, stdout, files, console, trace>>
sinks == <<stdout, files>>
request == <<req, extra, entry, dateStamp>>

NoResponse == [status |-> 0]
Response(status, kind, body) == [status |-> status, kind |-> kind, body |-> body]

\* the process as it starts, its salt one of salts
Boot(salts) ==
  /\ phase = "boot"
  /\ IP_HASH_SALT \in salts
  /\ \E v \in EnvFlags : LOG_TO_FILE = envFlag(v, "true")
  /\ logDirReady = "null"
  /\ now = 0
  /\ cur = 0
  /\ req = [r \in ReqIds |-> Undef]
  /\ pc = [r \in ReqIds |-> "idle"]
  /\ extra = [r \in ReqIds |-> Undef]
  /\ entry = [r \in ReqIds |-> Undef]
  /\ dateStamp = [r \in ReqIds |-> Undef]
  /\ res = [r \in ReqIds |-> NoResponse]
  /\ stdout = <<>>
  /\ files = <<>>
  /\ console = [r \in {0} \cup ReqIds |-> <<>>]
  /\ trace = [r \in ReqIds |-> <<>>]

Init == Boot(EnvSalts) /\ page = Undef

Did(r, what) == trace' = [trace EXCEPT ![r] = Append(@, what)]
Log(level, message, r) ==
  console' = [console EXCEPT ![r] = Append(@, [level |-> level, message |-> message])]
Goto(r, where) == pc' = [pc EXCEPT ![r] = where]
Send(r, response) == res' = [res EXCEPT ![r] = response]

\* the wall clock advances; the code between two awaits runs within one tick
Tick ==
  /\ phase /= "exited"
  /\ cur = 0
  /\ now < MaxTime
  /\ now' = now + 1
  /\ UNCHANGED <<page, phase, config, logDirReady, cur, request, pc, res, sinks,
                 console, trace>>

(***************************************************************************)
(* Start-up: the module's top-level code, run once and synchronously       *)
(* (server.js:18-29, 1332-1334).                                           *)
(***************************************************************************)
\* the check written as IP_HASH_SALT === undefined: '' passes
SaltUndefined == IP_HASH_SALT = Undef

\* if (!IP_HASH_SALT) { console.error(...); process.exit(1); }
SaltMissing == ~Truthy(IP_HASH_SALT)

CheckSalt ==
  /\ phase = "boot"
  /\ IF SaltMissing
       THEN /\ phase' = "exited"
            /\ Log("error", "IP_HASH_SALT is required", 0)
       ELSE /\ phase' = "mkdir"
            /\ UNCHANGED console
  /\ UNCHANGED <<page, config, logDirReady, now, cur, request, pc, res, sinks, trace>>

\* logDirReadyPromise = LOG_TO_FILE ? fs.mkdir(...).catch(...) : null
PrepareLogDir ==
  /\ phase = "mkdir"
  /\ logDirReady' = IF LOG_TO_FILE THEN "pending" ELSE "null"
  /\ phase' = "listen"
  /\ UNCHANGED <<page, config, now, cur, request, pc, res, sinks, console, trace>>

\* app.listen(PORT, ...)
Listen ==
  /\ phase = "listen"
  /\ phase' = "serving"
  /\ UNCHANGED <<page, config, logDirReady, now, cur, request, pc, res, sinks,
                 console, trace>>

\* fs.mkdir succeeds: the promise resolves
MkdirResolves ==
  /\ phase = "serving"
  /\ cur = 0
  /\ logDirReady = "pending"
  /\ logDirReady' = "resolved"
  /\ UNCHANGED <<page, phase, config, now, cur, request, pc, res, sinks, console, trace>>

\* fs.mkdir fails: the catch handler reports it and ends the process
MkdirFails ==
  /\ phase = "serving"
  /\ cur = 0
  /\ logDirReady = "pending"
  /\ logDirReady' = "failed"
  /\ Log("error", "Unable to prepare log directory:", 0)
  /\ phase' = "exited"
  /\ UNCHANGED <<page, config, now, cur, request, pc, res, sinks, trace>>

(***************************************************************************)
(* Routes (server.js:1293-1322).                                           *)
(***************************************************************************)
\* a request, one of those in traffic, arrives and Express calls the route
\* that matches it
ReceiveFrom(r, traffic) ==
  /\ phase = "serving"
  /\ cur = 0
  /\ pc[r] = "idle"
  /\ \A o \in ReqIds : o < r => pc[o] /= "idle"
  /\ \E q \in traffic :
       /\ req' = [req EXCEPT ![r] = q]
       /\ Goto(r, Route(q))
  /\ cur' = r
  /\ UNCHANGED <<page, phase, config, logDirReady, now, extra, entry, dateStamp, res,
                 sinks, console, trace>>

\* app.get('/healthz')
Healthz(r) ==
  /\ cur = r /\ pc[r] = "healthz"
  /\ Send(r, Response(200, "json", O([status |-> S("ok")])))
  /\ Did(r, "respond")
  /\ Goto(r, "done")
  /\ cur' = 0
  /\ UNCHANGED <<page, phase, config, logDirReady, now, request, sinks, console>>

\* app.use((req, res) => res.status(404)...)
NotFound(r) ==
  /\ cur = r /\ pc[r] = "notfound"
  /\ Send(r, Response(404, "json", O([error |-> S("Not Found")])))
  /\ Did(r, "respond")
  /\ Goto(r, "done")
  /\ cur' = 0
  /\ UNCHANGED <<page, phase, config, logDirReady, now, request, sinks, console>>

\* res.status(500).json(...) where the default handler of Express, which
\* answers with the status of the error, would have been left to answer
ErrorMiddlewareKeepsStatus(r) ==
  /\ cur = r /\ pc[r] = "error"
  /\ Log("error", "Unhandled error:", r)
  /\ Send(r, Response(400, "json", O([error |-> S("Bad Request")])))
  /\ Did(r, "respond")
  /\ Goto(r, "done")
  /\ cur' = 0
  /\ UNCHANGED <<page, phase, config, logDirReady, now, request, sinks>>

\* app.use((err, req, res, next) => ...): the error is logged; when the
\* headers are sent already it goes to next(err), where Express writes no
\* response, otherwise the 500 is sent
ErrorMiddleware(r) ==
  /\ cur = r /\ pc[r] = "error"
  /\ Log("error", "Unhandled error:", r)
  /\ IF res[r].status /= 0
       THEN UNCHANGED <<res, trace>>
       ELSE /\ Send(r, Response(500, "json", O([error |-> S("Internal Server Error")])))
            /\ Did(r, "respond")
  /\ Goto(r, "done")
  /\ cur' = 0
  /\ UNCHANGED <<page, phase, config, logDirReady, now, request, sinks>>

\* app.get('/'): res.type('html').send(...), then logVisit(req, {event: 'pageview'})
Root(r) ==
  /\ cur = r /\ pc[r] = "root"
  /\ Send(r, Response(200, "html", S("landing page")))
  /\ Did(r, "respond")
  /\ extra' = [extra EXCEPT ![r] = O([event |-> S("pageview")])]
  /\ Goto(r, "logVisit")
  /\ UNCHANGED <<page, phase, config, logDirReady, now, cur, req, entry, dateStamp,
                 sinks, console>>

\* the telemetry route calling logVisit(req, { event: 'telemetry' })
TelemetryWithoutPayload(r) ==
  /\ cur = r /\ pc[r] = "telemetry"
  /\ LET found == issues(telemetrySchema, req[r].body, <<>>)
     IN IF found /= {}
          THEN /\ Log("warn", "Invalid telemetry payload received:", r)
               /\ Send(r, Response(400, "json",
                         O([error |-> S("Invalid payload"), details |-> flatten(found)])))
               /\ Did(r, "respond")
               /\ Goto(r, "done")
               /\ cur' = 0
               /\ UNCHANGED extra
          ELSE /\ extra' = [extra EXCEPT ![r] = O([event |-> S("telemetry")])]
               /\ Goto(r, "logVisit")
               /\ UNCHANGED <<cur, res, console, trace>>
  /\ UNCHANGED <<page, phase, config, logDirReady, now, req, entry, dateStamp, sinks>>

\* the telemetry route with logVisit not awaited: 204 is sent at once
TelemetryNotAwaited(r) ==
  /\ cur = r /\ pc[r] = "telemetry"
  /\ LET found == issues(telemetrySchema, req[r].body, <<>>)
     IN IF found /= {}
          THEN /\ Log("warn", "Invalid telemetry payload received:", r)
               /\ Send(r, Response(400, "json",
                         O([error |-> S("Invalid payload"), details |-> flatten(found)])))
               /\ Goto(r, "done")
               /\ cur' = 0
               /\ UNCHANGED extra
          ELSE /\ extra' = [extra EXCEPT ![r] =
                              O([event |-> S("telemetry"),
                                 telemetry |-> parsed(telemetrySchema, req[r].body)])]
               /\ Send(r, Response(204, "none", Undef))
               /\ Goto(r, "logVisit")
               /\ UNCHANGED <<cur, console>>
  /\ Did(r, "respond")
  /\ UNCHANGED <<page, phase, config, logDirReady, now, req, entry, dateStamp, sinks>>

\* app.post('/api/telemetry'): telemetrySchema.parse(req.body), then either the
\* ZodError branch of the catch or await logVisit(req, {event, telemetry})
Telemetry(r) ==
  /\ cur = r /\ pc[r] = "telemetry"
  /\ LET found == issues(telemetrySchema, req[r].body, <<>>)
     IN IF found /= {}
          THEN /\ Log("warn", "Invalid telemetry payload received:", r)
               /\ Send(r, Response(400, "json",
                         O([error |-> S("Invalid payload"), details |-> flatten(found)])))
               /\ Did(r, "respond")
               /\ Goto(r, "done")
               /\ cur' = 0
               /\ UNCHANGED extra
          ELSE /\ extra' = [extra EXCEPT ![r] =
                              O([event |-> S("telemetry"),
                                 telemetry |-> parsed(telemetrySchema, req[r].body)])]
               /\ Goto(r, "logVisit")
               /\ UNCHANGED <<cur, res, console, trace>>
  /\ UNCHANGED <<page, phase, config, logDirReady, now, req, entry, dateStamp, sinks>>

(***************************************************************************)
(* logVisit and persistLog (server.js:270-296, 315-319).                   *)
(***************************************************************************)
\* const base = buildBaseLog(req); const entry = { ...base, ...extra };
LogVisit(r) ==
  /\ cur = r /\ pc[r] = "logVisit"
  /\ entry' = [entry EXCEPT ![r] = spread(buildBaseLog(req[r], now), extra[r])]
  /\ Did(r, "build")
  /\ Goto(r, "persistLog")
  /\ UNCHANGED <<page, phase, config, logDirReady, now, cur, req, extra, dateStamp, res,
                 sinks, console>>

\* where persistLog goes after the stdout write
AfterStdout == IF LOG_TO_FILE THEN "awaitLogDir" ELSE "fulfilled"

\* persistLog with the stdout write inside the branch that returns early: the
\* line is written only when on-disk logging is off
PersistLogStdoutWhenNoFile(r) ==
  /\ cur = r /\ pc[r] = "persistLog"
  /\ IF LOG_TO_FILE
       THEN UNCHANGED stdout
       ELSE stdout' = Append(stdout, [req |-> r, line |-> jsonLine(entry[r])])
  /\ Did(r, "stdout")
  /\ Goto(r, AfterStdout)
  /\ cur' = IF AfterStdout = "awaitLogDir" THEN 0 ELSE r
  /\ UNCHANGED <<page, phase, config, logDirReady, now, request, res, files, console>>

\* process.stdout.write(line); if (!LOG_TO_FILE) return; await logDirReadyPromise
\* A synchronous stdout (a file, a pipe) can throw from write: the promise of
\* persistLog, and with it that of logVisit, is then rejected.
PersistLog(r) ==
  /\ cur = r /\ pc[r] = "persistLog"
  /\ \/ /\ stdout' = Append(stdout, [req |-> r, line |-> jsonLine(entry[r])])
        /\ Did(r, "stdout")
        /\ Goto(r, AfterStdout)
        /\ cur' = IF AfterStdout = "awaitLogDir" THEN 0 ELSE r
     \/ /\ Did(r, "stdout throws")
        /\ Goto(r, "rejected")
        /\ UNCHANGED <<stdout, cur>>
  /\ UNCHANGED <<page, phase, config, logDirReady, now, request, res, files, console>>

LogPath(stamp, extension) == [dir |-> "LOG_DIR", name |-> <<"visits-", stamp, extension>>]
jsonlPath(stamp) == LogPath(stamp, ".jsonl")
textPath(stamp) == LogPath(stamp, ".txt")

FileLines(path) == IF path \in DOMAIN files THEN files[path] ELSE <<>>
\* fs.writeFile in the place of fs.appendFile: the file is replaced
writeFile(path, r, data) ==
  files' = (path :> <<[req |-> r, line |-> data]>>) @@ files

\* fs.appendFile(path, data) when it succeeds
appendFile(path, r, data) ==
  files' = (path :> Append(FileLines(path), [req |-> r, line |-> data])) @@ files

\* the date stamp taken from the entry's own timestamp instead of a new Date
DateStampOfEntry(r, t) == sliceDate(entry[r].obj.timestamp)

\* const dateStamp = now.toISOString().slice(0, 10)
DateStampAt(r, t) == sliceDate(toISOString(t))

\* persistLog without the await of logDirReadyPromise
ResumeWithoutLogDir(r) ==
  /\ cur = 0 /\ pc[r] = "awaitLogDir"
  /\ phase = "serving"
  /\ dateStamp' = [dateStamp EXCEPT ![r] = DateStampAt(r, now)]
  /\ Did(r, "stamp")
  /\ Goto(r, "appendJsonl")
  /\ UNCHANGED <<page, phase, config, logDirReady, now, cur, req, extra, entry, res,
                 sinks, console>>

\* the await of logDirReadyPromise returns; the date stamp and the two paths
\* are computed and the append to the .jsonl file is issued
ResumeWithLogDir(r) ==
  /\ cur = 0 /\ pc[r] = "awaitLogDir"
  /\ phase = "serving"
  /\ logDirReady = "resolved"
  /\ dateStamp' = [dateStamp EXCEPT ![r] = DateStampAt(r, now)]
  /\ Did(r, "stamp")
  /\ Goto(r, "appendJsonl")
  /\ UNCHANGED <<page, phase, config, logDirReady, now, cur, req, extra, entry, res,
                 sinks, console>>

\* a failed append to the .jsonl file without its try/catch: persistLog rejects
JsonlFailedRejects(r) ==
  /\ Did(r, "jsonl fails")
  /\ Goto(r, "rejected")
  /\ cur' = r
  /\ UNCHANGED <<files, console>>

\* what follows a failed append to the .jsonl file: the catch block reports it
\* and persistLog goes on to the text file
JsonlFailed(r) ==
  /\ Log("error", "Failed to append visit log (jsonl):", r)
  /\ Did(r, "jsonl fails")
  /\ Goto(r, "appendText")
  /\ UNCHANGED <<files, cur>>

\* the append to the .jsonl file completes, either way; the text block is
\* formatted and its append issued
AppendJsonl(r) ==
  /\ cur = 0 /\ pc[r] = "appendJsonl"
  /\ phase = "serving"
  /\ \/ /\ appendFile(jsonlPath(dateStamp[r]), r, jsonLine(entry[r]))
        /\ Did(r, "jsonl")
        /\ Goto(r, "appendText")
        /\ UNCHANGED <<console, cur>>
     \/ JsonlFailed(r)
  /\ UNCHANGED <<page, phase, config, logDirReady, now, request, res, stdout>>

\* a failed append to the .txt file without its try/catch: persistLog rejects
TextFailedRejects(r) ==
  /\ Did(r, "text fails")
  /\ Goto(r, "rejected")
  /\ cur' = r
  /\ UNCHANGED <<files, console>>

\* what follows a failed append to the .txt file
TextFailed(r) ==
  /\ Log("error", "Failed to append visit log (text):", r)
  /\ Did(r, "text fails")
  /\ Goto(r, "fulfilled")
  /\ cur' = r
  /\ UNCHANGED files

\* persistLog taking the date again for the append to the .txt file
AppendTextRestamped(r) ==
  /\ cur = 0 /\ pc[r] = "appendText"
  /\ phase = "serving"
  /\ \/ /\ appendFile(textPath(DateStampAt(r, now)), r, formatTextLogEntry(entry[r]))
        /\ Did(r, "text")
        /\ Goto(r, "fulfilled")
        /\ cur' = r
        /\ UNCHANGED console
     \/ TextFailed(r)
  /\ UNCHANGED <<page, phase, config, logDirReady, now, request, res, stdout>>

\* the append to the .txt file completes, either way, and persistLog returns
AppendText(r) ==
  /\ cur = 0 /\ pc[r] = "appendText"
  /\ phase = "serving"
  /\ \/ /\ appendFile(textPath(dateStamp[r]), r, formatTextLogEntry(entry[r]))
        /\ Did(r, "text")
        /\ Goto(r, "fulfilled")
        /\ cur' = r
        /\ UNCHANGED console
     \/ TextFailed(r)
  /\ UNCHANGED <<page, phase, config, logDirReady, now, request, res, stdout>>

\* the page-view route answering 500 when logVisit rejects
RootSettledSends500(r) ==
  /\ cur = r /\ Route(req[r]) = "root"
  /\ \/ /\ pc[r] = "fulfilled"
        /\ UNCHANGED <<console, res>>
     \/ /\ pc[r] = "rejected"
        /\ Log("error", "Failed to log page view:", r)
        /\ Send(r, Response(500, "json", O([error |-> S("Internal Server Error")])))
  /\ Goto(r, "done")
  /\ cur' = 0
  /\ UNCHANGED <<page, phase, config, logDirReady, now, request, sinks, trace>>

\* the promise of logVisit is settled and its caller goes on:
\* app.get('/') has only a .catch on it; app.post('/api/telemetry') awaited it
\* and answers 204, or 500 from the catch block
RootSettled(r) ==
  /\ cur = r /\ Route(req[r]) = "root"
  /\ \/ /\ pc[r] = "fulfilled"
        /\ UNCHANGED console
     \/ /\ pc[r] = "rejected"
        /\ Log("error", "Failed to log page view:", r)
  /\ Goto(r, "done")
  /\ cur' = 0
  /\ UNCHANGED <<page, phase, config, logDirReady, now, request, res, sinks, trace>>

TelemetrySettled(r) ==
  /\ cur = r /\ Route(req[r]) = "telemetry"
  /\ \/ /\ pc[r] = "fulfilled"
        /\ Send(r, Response(204, "none", Undef))
        /\ UNCHANGED console
     \/ /\ pc[r] = "rejected"
        /\ Log("error", "Unexpected error while processing telemetry:", r)
        /\ Send(r, Response(500, "json", O([error |-> S("Internal Server Error")])))
  /\ Did(r, "respond")
  /\ Goto(r, "done")
  /\ cur' = 0
  /\ UNCHANGED <<page, phase, config, logDirReady, now, request, sinks>>

Receive(r) == ReceiveFrom(r, Requests)

\* logVisit and persistLog, from the call to the settling of the promise
Logging(r) ==
  \/ LogVisit(r)
  \/ PersistLog(r)
  \/ ResumeWithLogDir(r)
  \/ AppendJsonl(r)
  \/ AppendText(r)

Handler(r) ==
  \/ Receive(r)
  \/ Healthz(r)
  \/ NotFound(r)
  \/ Root(r)
  \/ Telemetry(r)
  \/ Logging(r)
  \/ RootSettled(r)
  \/ TelemetrySettled(r)

\* the start-up code, the clock and the directory creation
Process ==
  \/ Tick
  \/ CheckSalt
  \/ PrepareLogDir
  \/ Listen
  \/ MkdirResolves
  \/ MkdirFails

Next ==
  \/ Process
  \/ \E r \in ReqIds : Handler(r)

Spec == Init /\ [][Next]_vars

\* the server when every request is a POST /api/telemetry
TelemetryNext ==
  \/ Process
  \/ \E r \in ReqIds :
       \/ ReceiveFrom(r, TelemetryRequests)
       \/ Telemetry(r)
       \/ Logging(r)
       \/ TelemetrySettled(r)

TelemetrySpec == Init /\ [][TelemetryNext]_vars

\* the server when every request is a GET /
PageNext ==
  \/ Process
  \/ \E r \in ReqIds :
       \/ ReceiveFrom(r, PageRequests)
       \/ Root(r)
       \/ Logging(r)
       \/ RootSettled(r)

\* Node runs the code of a handler up to its next await without stopping
SyncStep(r) ==
  /\ cur = r
  /\ Root(r) \/ Logging(r) \/ RootSettled(r)

PageSpec == Init /\ [][PageNext]_vars /\ WF_vars(\E r \in ReqIds : SyncStep(r))

\* the server and its first request, a page view out of EntryRequests
(***************************************************************************)
(* The script of the landing page, running in a browser.                   *)
(***************************************************************************)
\* the page as rendered, before its script has run
renderLandingPage(consentRequired) ==
  [consentRequired |-> consentRequired,
   loaded |-> FALSE,
   banner |-> FALSE,             \* #consent-banner has class "active"
   consentStatus |-> "Pending",  \* data-field="consent-status"
   exportDisabled |-> TRUE,      \* the "Download Report" button
   collecting |-> FALSE,         \* state.collecting
   consentGranted |-> ~consentRequired,
   latestPayload |-> Null,
   activityLog |-> <<>>,
   runs |-> <<>>,                \* where each collectTelemetry in progress is suspended
   fetched |-> <<>>,             \* bodies of the POST /api/telemetry made
   exported |-> Null]            \* the last report downloaded

\* addActivity: unshift, then slice(0, 12)
addActivity(log, message) == SubSeq(<<message>> \o log, 1, MinOf({12, Len(log) + 1}))

\* updateConsentStatus
updateConsentStatus(g) == [g EXCEPT !.consentStatus =
                             IF g.consentGranted THEN "Granted" ELSE "Pending"]

\* collectTelemetry without the check of state.collecting
collectTelemetryUnguarded(g) ==
  updateConsentStatus(
    [g EXCEPT !.collecting = TRUE,
              !.activityLog = addActivity(
                                addActivity(<<>>, "Starting device diagnostics"),
                                "Preparing identifiers"),
              !.exportDisabled = TRUE,
              !.runs = Append(@, "identifiers")])

\* collectTelemetry, up to the first await inside gatherIdentifiers
collectTelemetry(g) ==
  IF g.collecting THEN g
  ELSE updateConsentStatus(
         [g EXCEPT !.collecting = TRUE,
                   !.activityLog = addActivity(
                                     addActivity(<<>>, "Starting device diagnostics"),
                                     "Preparing identifiers"),
                   !.exportDisabled = TRUE,
                   !.runs = Append(@, "identifiers")])

\* the runs of collectTelemetry suspended at the await
RunsAt(where) == {i \in 1..Len(page.runs) : page.runs[i] = where}
\* the runs without the one that returns
Without1(runs, i) == SubSeq(runs, 1, i - 1) \o SubSeq(runs, i + 1, Len(runs))

\* the script runs once the page is loaded
LoadPage ==
  /\ page /= Undef /\ ~page.loaded
  /\ page' = LET g == [page EXCEPT !.loaded = TRUE]
             IN IF g.consentRequired
                THEN updateConsentStatus([g EXCEPT !.banner = TRUE])
                ELSE collectTelemetry(g)
  /\ UNCHANGED server

\* click on "Refresh Data"
ClickRefresh ==
  /\ page /= Undef /\ page.loaded
  /\ Len(page.fetched) < MaxFetch
  /\ page' = collectTelemetry(page)
  /\ UNCHANGED server

\* click on "Allow secure collection"; the listener is added only when
\* consent is required, and the button is displayed with the banner only
ClickConsent ==
  /\ page /= Undef /\ page.loaded /\ page.consentRequired /\ page.banner
  /\ Len(page.fetched) < MaxFetch
  /\ page' = collectTelemetry(
               [updateConsentStatus([page EXCEPT !.consentGranted = TRUE])
                  EXCEPT !.banner = FALSE])
  /\ UNCHANGED server

\* click on "Download Report": exportReport
ClickExport ==
  /\ page /= Undef /\ page.loaded /\ ~page.exportDisabled
  /\ page.latestPayload /= Null
  /\ page' = [page EXCEPT !.exported = page.latestPayload,
                          !.activityLog = addActivity(@, "Downloaded local telemetry snapshot")]
  /\ UNCHANGED server

\* gatherIdentifiers resolves; gatherSystemInfo, gatherNetworkInfo and the
\* start of gatherHardwareInfo follow
IdentifiersGathered ==
  /\ page /= Undef
  /\ \E i \in RunsAt("identifiers") :
     page' = [page EXCEPT !.runs[i] = "hardware",
                          !.activityLog = addActivity(addActivity(addActivity(@,
                                            "Collecting system profile"),
                                            "Inspecting network connection"),
                                            "Assessing hardware metrics")]
  /\ UNCHANGED server

\* gatherHardwareInfo resolves; gatherFeaturesInfo starts
HardwareGathered ==
  /\ page /= Undef
  /\ \E i \in RunsAt("hardware") :
     page' = [page EXCEPT !.runs[i] = "features",
                          !.activityLog = addActivity(@, "Interrogating browser capabilities")]
  /\ UNCHANGED server

\* gatherFeaturesInfo resolves: the payload is built and fetch is called
FeaturesGathered ==
  /\ page /= Undef
  /\ LET payload == [activityLog |-> page.activityLog,
                     consentGranted |-> page.consentGranted]
     IN \E i \in RunsAt("features") :
        page' = [page EXCEPT !.runs[i] = "fetch",
                             !.latestPayload = payload,
                             !.exportDisabled = FALSE,
                             !.activityLog = addActivity(@, "Transmitting telemetry payload"),
                             !.fetched = Append(@, payload)]
  /\ UNCHANGED server

\* fetch settles: resolved, or rejected into the catch block; then finally
FetchSettled ==
  /\ page /= Undef
  /\ \E i \in RunsAt("fetch") :
     \E message \in {"Telemetry successfully logged", "Telemetry collection failed: "} :
       page' = [page EXCEPT !.runs = Without1(@, i),
                            !.collecting = FALSE,
                            !.activityLog = addActivity(@, message)]
  /\ UNCHANGED server

ClientInit == Boot({CHOOSE s \in EnvSalts : Truthy(s)}) /\ page \in {renderLandingPage(c) : c \in BOOLEAN}
ClientNext ==
  \/ LoadPage \/ ClickRefresh \/ ClickConsent \/ ClickExport
  \/ IdentifiersGathered \/ HardwareGathered \/ FeaturesGathered \/ FetchSettled
ClientSpec == ClientInit /\ [][ClientNext]_vars


EntryNext ==
  \/ Process
  \/ ReceiveFrom(1, EntryRequests)
  \/ Root(1)
  \/ Logging(1)
  \/ RootSettled(1)

EntrySpec == Init /\ [][EntryNext]_vars

\* the server under one salt of PairSalts, its requests out of PairRequests,
\* each arriving when the one before is done with, all within one tick of the
\* clock
\* one telemetry request, with a payload of ValidatorRequests
ValidateNext ==
  \/ Process
  \/ ReceiveFrom(1, ValidatorRequests)
  \/ Telemetry(1)
  \/ Logging(1)
  \/ TelemetrySettled(1)
ValidateSpec == Init /\ [][ValidateNext]_vars

\* one request, of any route, with or without a body express.json fails on
ErrorNext ==
  \/ Process
  \/ ReceiveFrom(1, ErrorRequests)
  \/ Healthz(1) \/ NotFound(1) \/ Root(1) \/ Telemetry(1)
  \/ Logging(1)
  \/ RootSettled(1) \/ TelemetrySettled(1)
  \/ ErrorMiddleware(1)
ErrorSpec == Init /\ [][ErrorNext]_vars

\* the entries formatTextLogEntry is tried on: the entry of a page view with
\* any of its members left out, an event and a telemetry member absent, set
\* or falsy, and further members
FormatEvents == {Undef, Null, S(""), S("pageview"), S("telemetry")}
FormatTelemetry == {Undef, Null, MinimalBody}
FormatResidues == {<<>>, [note |-> S("n")], [note |-> Undef], [note |-> S("n"), tag |-> N(1)]}
Without(e, keys) == O([k \in DOMAIN e.obj \ keys |-> e.obj[k]])
With(e, k, v) == IF v = Undef THEN e ELSE O((k :> v) @@ e.obj)
FormatEntries ==
  {O(rest @@ With(With(Without(buildBaseLog(Direct, 0), keys), "event", ev),
                  "telemetry", tel).obj) :
     keys \in SUBSET {"timestamp", "method", "path", "hashedIp", "headers", "userAgent"},
     ev \in FormatEvents, tel \in FormatTelemetry, rest \in FormatResidues}

\* persistLog about to append the text block of one of FormatEntries
FormatInit ==
  /\ phase = "serving"
  /\ IP_HASH_SALT \in {s \in EnvSalts : Truthy(s)}
  /\ LOG_TO_FILE = TRUE
  /\ logDirReady = "resolved"
  /\ now = 0
  /\ cur = 0
  /\ req = [r \in ReqIds |-> IF r = 1 THEN Direct ELSE Undef]
  /\ pc = [r \in ReqIds |-> IF r = 1 THEN "appendText" ELSE "idle"]
  /\ extra = [r \in ReqIds |-> Undef]
  /\ entry \in {[r \in ReqIds |-> IF r = 1 THEN e ELSE Undef] : e \in FormatEntries}
  /\ dateStamp = [r \in ReqIds |-> IF r = 1 THEN DateStampAt(1, 0) ELSE Undef]
  /\ res = [r \in ReqIds |-> NoResponse]
  /\ stdout = <<>>
  /\ files = <<>>
  /\ console = [r \in {0} \cup ReqIds |-> <<>>]
  /\ trace = [r \in ReqIds |-> <<>>]
  /\ page = Undef
FormatNext == AppendText(1)
FormatSpec == FormatInit /\ [][FormatNext]_vars

PairInit == Boot(PairSalts) /\ page = Undef

PairReceive(r) ==
  /\ \A o \in ReqIds : o < r => pc[o] = "done"
  /\ ReceiveFrom(r, PairRequests)

PairNext ==
  \/ CheckSalt
  \/ PrepareLogDir
  \/ Listen
  \/ MkdirResolves
  \/ MkdirFails
  \/ \E r \in ReqIds :
       \/ PairReceive(r)
       \/ Root(r)
       \/ Telemetry(r)
       \/ Logging(r)
       \/ RootSettled(r)
       \/ TelemetrySettled(r)

PairSpec == PairInit /\ [][PairNext]_vars

(***************************************************************************)
(* Properties.                                                             *)
(***************************************************************************)
Has(seq, x) == \E i \in 1..Len(seq) : seq[i] = x
Index(seq, x) == MinOf({i \in 1..Len(seq) : seq[i] = x})
\* in the trace of r, a happened and no b happened before it
Before(r, a, b) ==
  /\ Has(trace[r], a)
  /\ Has(trace[r], b) => Index(trace[r], a) < Index(trace[r], b)

LinesOf(seq, r) == {i \in 1..Len(seq) : seq[i].req = r}
Paths == DOMAIN files
IsJsonl(path) == path.name[3] = ".jsonl"
IsText(path) == path.name[3] = ".txt"
Logged(r, level, message) == Has(console[r], [level |-> level, message |-> message])

Valid(r) == req[r] /= Undef /\ Route(req[r]) = "telemetry" /\ req[r].body = MinimalBody
IsRoot(r) == req[r] /= Undef /\ Route(req[r]) = "root"
\* the stdout write of persistLog has run for r and did not throw
Written(r) == Has(trace[r], "stdout")
\* both appends of r have completed, either way
Appended(r) ==
  /\ Has(trace[r], "jsonl") \/ Has(trace[r], "jsonl fails")
  /\ Has(trace[r], "text") \/ Has(trace[r], "text fails")

\* C1, in every state: an entry whose stdout write has run has exactly one
\* line on stdout, a request past the write has it, the write comes before
\* the date stamp and the appends, and every line of a daily file has its
\* line on stdout already (a .jsonl line the same one)
C1_Lines ==
  /\ \A r \in ReqIds :
       /\ Cardinality(LinesOf(stdout, r)) = (IF Written(r) THEN 1 ELSE 0)
       /\ pc[r] \in {"awaitLogDir", "appendJsonl", "appendText", "fulfilled"}
            => Written(r)
       /\ Has(trace[r], "stamp") => Before(r, "stdout", "stamp")
  /\ \A p \in Paths : \A i \in 1..Len(files[p]) :
       \E j \in 1..Len(stdout) :
         /\ stdout[j].req = files[p][i].req
         /\ IsJsonl(p) => stdout[j].line = files[p][i].line

\* C1, in every step: a line put on stdout for a request is the one-line
\* serialization of the entry handed to persistLog, the entry does not change
\* once built, and stdout only grows
C1_Serialized ==
  /\ Len(stdout') >= Len(stdout)
  /\ SubSeq(stdout', 1, Len(stdout)) = stdout
  /\ \A r \in ReqIds :
       /\ entry[r] /= Undef => entry'[r] = entry[r]
       /\ LinesOf(stdout', r) /= LinesOf(stdout, r) =>
            \A i \in LinesOf(stdout', r) : stdout'[i].line = jsonLine(entry'[r])

\* C1: every entry handed to persistLog gets exactly one line on stdout, the
\* serialization of that entry, with on-disk logging on or off and whatever
\* the appends do; the write comes before the appends, so every line of a
\* daily file has its line on stdout already (and a .jsonl line the same one).
C1_StdoutFirst == []C1_Lines /\ [][C1_Serialized]_vars

\* an entry is in a .jsonl file, its text append failed, and it is on stdout
C1_Witness ==
  \E r \in ReqIds : \E p \in Paths :
    /\ IsJsonl(p) /\ LinesOf(files[p], r) /= {}
    /\ Has(trace[r], "text fails")
    /\ LinesOf(stdout, r) /= {}

\* C2: the two appends fail independently of each other: after a failed
\* .jsonl append the .txt append is still made, a failed .txt append leaves
\* the .jsonl line in place, the stdout line is there in both cases, each
\* failure is reported with console.error, persistLog does not reject and a
\* valid telemetry submission is answered 204.
C2_FailureIsolation ==
  \A r \in ReqIds :
    /\ Has(trace[r], "jsonl fails") =>
         /\ Written(r)
         /\ Logged(r, "error", "Failed to append visit log (jsonl):")
         /\ pc[r] /= "rejected"
         /\ pc[r] \in {"fulfilled", "done"} =>
              Has(trace[r], "text") \/ Has(trace[r], "text fails")
         /\ Has(trace[r], "text") =>
              \E p \in Paths : IsText(p) /\ LinesOf(files[p], r) /= {}
    /\ Has(trace[r], "text fails") =>
         /\ Written(r)
         /\ Logged(r, "error", "Failed to append visit log (text):")
         /\ pc[r] /= "rejected"
         /\ Has(trace[r], "jsonl") =>
              \E p \in Paths : IsJsonl(p) /\ LinesOf(files[p], r) /= {}
    /\ (Valid(r) /\ pc[r] = "done" /\ Appended(r)) => res[r].status = 204

\* a telemetry submission whose .jsonl append failed and whose .txt append
\* succeeded has been answered
C2_Witness ==
  \E r \in ReqIds :
    /\ Valid(r) /\ pc[r] = "done"
    /\ Has(trace[r], "jsonl fails") /\ Has(trace[r], "text")
    /\ res[r].status = 204


C4_ResponseNeverWaits ==
  \A r \in ReqIds : Has(trace[r], "stamp") => Before(r, "respond", "stamp")

\* C4, amended: GET / answers before logVisit is called, so its response
\* waits for nothing; POST /api/telemetry awaits logVisit, so its 204 is sent
\* only after the stdout write and, with on-disk logging, after the wait for
\* the log directory and both appends are over.
C4_OnlyPageViewsNeverWait ==
  \A r \in ReqIds :
    /\ (IsRoot(r) /\ trace[r] /= <<>>) => trace[r][1] = "respond"
    /\ (Valid(r) /\ res[r].status = 204) =>
         /\ Before(r, "stdout", "respond")
         /\ LOG_TO_FILE => Appended(r) /\ Before(r, "stamp", "respond")

\* a page view answered while its appends are still to come, next to a
\* telemetry submission answered after its appends
C4_Witness ==
  \E r, t \in ReqIds :
    /\ IsRoot(r) /\ pc[r] = "appendJsonl" /\ res[r].status = 200
    /\ Valid(t) /\ res[t].status = 204 /\ Appended(t)

\* what is true of a page view at every moment
C5_PageViewState ==
  \A r \in ReqIds :
    IsRoot(r) =>
      /\ trace[r] /= <<>> =>
           /\ trace[r][1] = "respond"
           /\ res[r] = Response(200, "html", S("landing page"))
      /\ Cardinality(LinesOf(stdout, r)) =
           (IF pc[r] \in {"root", "logVisit", "persistLog"} \/ Has(trace[r], "stdout throws")
              THEN 0 ELSE 1)
      /\ \A i \in LinesOf(stdout, r) : stdout[i].line.json.obj.event = S("pageview")
      /\ (Has(trace[r], "stdout throws") /\ pc[r] = "done") =>
           console[r] = <<[level |-> "error", message |-> "Failed to log page view:"]>>

\* what is true of every page view received, whenever no handler code runs
C5_PageViewLogged ==
  \A r \in ReqIds :
    IsRoot(r) =>
      /\ res[r].status = 200
      /\ \/ Cardinality(LinesOf(stdout, r)) = 1
         \/ Logged(r, "error", "Failed to log page view:")

\* C5: GET / is answered 200 with the page before logVisit is called; the
\* code of the handler runs to its end, and then exactly one pageview entry
\* is on stdout, or the write threw and the failure was reported with
\* console.error; the response stays the 200 page either way.
C5_PageView ==
  /\ []C5_PageViewState
  /\ [](cur = 0 => C5_PageViewLogged)
  /\ []<>(cur = 0)

\* a page view whose logging is over: answered 200, one pageview line on stdout
C5_Witness ==
  \E r \in ReqIds :
    /\ IsRoot(r) /\ pc[r] = "done" /\ res[r].status = 200
    /\ \E i \in LinesOf(stdout, r) : stdout[i].line.json.obj.event = S("pageview")

BuiltDate(r) == sliceDate(entry[r].obj.timestamp)
InJsonl(r) == Has(trace[r], "jsonl")
JsonlFileOf(r) == CHOOSE p \in Paths : IsJsonl(p) /\ LinesOf(files[p], r) /= {}

\* C6 as stated: two entries built on different UTC dates are appended to
\* distinct daily files and two entries built on the same date to the same.
C6_RotationByBuildDate ==
  \A r, t \in ReqIds :
    (InJsonl(r) /\ InJsonl(t)) =>
      (BuiltDate(r) = BuiltDate(t) <=> JsonlFileOf(r) = JsonlFileOf(t))

\* C6, amended: the daily files of an entry are those of the date stamp that
\* persistLog takes from the clock once the wait for the log directory is over,
\* never a date before the entry's timestamp; two entries land in the same
\* daily file exactly when their date stamps are equal.
C6_FilesOfStamp ==
  /\ \A r \in ReqIds : \A p \in Paths :
       LinesOf(files[p], r) /= {} =>
         /\ p \in {jsonlPath(dateStamp[r]), textPath(dateStamp[r])}
         /\ dateStamp[r].date >= BuiltDate(r).date
  /\ \A r, t \in ReqIds :
       (InJsonl(r) /\ InJsonl(t)) =>
         (dateStamp[r] = dateStamp[t] <=> JsonlFileOf(r) = JsonlFileOf(t))

C6_StampFromClock ==
  \A r \in ReqIds :
    dateStamp'[r] /= dateStamp[r] => dateStamp'[r] = sliceDate(toISOString(now))

C6_RotationByWriteDate == []C6_FilesOfStamp /\ [][C6_StampFromClock]_vars

\* two entries built on the same UTC date sit in two daily files
C6_Witness ==
  \E r, t \in ReqIds :
    /\ InJsonl(r) /\ InJsonl(t)
    /\ BuiltDate(r) = BuiltDate(t)
    /\ JsonlFileOf(r) /= JsonlFileOf(t)

C8_SaltPresent ==
  ~(IsChars(IP_HASH_SALT) /\ Len(IP_HASH_SALT.chars) > 0) =>
    /\ phase \in {"boot", "exited"}
    /\ \A r \in ReqIds : pc[r] = "idle" /\ entry[r] = Undef /\ res[r] = NoResponse
    /\ stdout = <<>>

\* the process ended on an empty salt
C8_Witness ==
  /\ IP_HASH_SALT = C(<<>>) /\ phase = "exited"
  /\ console[0] /= <<>>

Rejected(r) ==
  /\ req[r] /= Undef /\ Route(req[r]) = "telemetry"
  /\ req[r].body = EmptyObj \/ issues(telemetrySchema, req[r].body, <<>>) /= {}

\* C9: a telemetry submission that fails validation, {} included, is answered
\* 400 with the error report and leaves no entry anywhere: the step that
\* handles it changes neither stdout nor any file.
C9_NoEntry ==
  \A r \in ReqIds :
    (Rejected(r) /\ pc[r] /= "telemetry") =>
      /\ pc[r] = "done"
      /\ res[r].status = 400 /\ res[r].body.obj.error = S("Invalid payload")
      /\ entry[r] = Undef
      /\ LinesOf(stdout, r) = {}
      /\ \A p \in Paths : LinesOf(files[p], r) = {}

C9_SinksUntouched ==
  \A r \in ReqIds :
    (Rejected(r) /\ pc[r] = "telemetry" /\ pc'[r] /= "telemetry") => UNCHANGED sinks

C9_RejectedNotLogged == []C9_NoEntry /\ [][C9_SinksUntouched]_vars

\* {} was answered 400 after an earlier submission had been written to stdout
C9_Witness ==
  \E r, t \in ReqIds :
    /\ Rejected(r) /\ req[r].body = EmptyObj /\ res[r].status = 400
    /\ t < r /\ LinesOf(stdout, t) /= {}

Today == sliceDate(toISOString(now))
TelemetryLine(r) ==
  \E i \in LinesOf(stdout, r) :
    /\ stdout[i].line.json.obj.event = S("telemetry")
    /\ "telemetry" \in DOMAIN stdout[i].line.json.obj
    /\ stdout[i].line.json.obj.telemetry = req[r].body
InFile(r, path) ==
  /\ path \in Paths
  /\ \E i \in LinesOf(files[path], r) : files[path][i].line = jsonLine(entry[r])

\* C10 as stated: when a submission is answered 204, its entry, with the
\* payload unchanged, is on stdout and, with on-disk logging, in the .jsonl
\* file of the current UTC day.
C10_LoggedWhen204 ==
  \A r \in ReqIds :
    (Valid(r) /\ res[r].status = 204) =>
      /\ TelemetryLine(r)
      /\ LOG_TO_FILE => InFile(r, jsonlPath(Today))

\* C10, amended: when a submission is answered 204, its entry, with the
\* payload unchanged, is on stdout; with on-disk logging it is in the .jsonl
\* file of the day of its date stamp unless that append failed, and then it
\* is in no .jsonl file.
C10_LoggedUnlessAppendFailed ==
  \A r \in ReqIds :
    (Valid(r) /\ res[r].status = 204) =>
      /\ TelemetryLine(r)
      /\ LOG_TO_FILE =>
           IF Has(trace[r], "jsonl fails")
             THEN \A p \in Paths : IsJsonl(p) => LinesOf(files[p], r) = {}
             ELSE InFile(r, jsonlPath(dateStamp[r]))

\* a submission answered 204 on the day after the one of its .jsonl file
C10_Witness ==
  \E r \in ReqIds :
    /\ Valid(r) /\ res[r].status = 204
    /\ InFile(r, jsonlPath(dateStamp[r]))
    /\ dateStamp[r].date < Today.date

\* the requests that get a Log Entry: page views and valid submissions
Recorded(r) == req[r] /= Undef /\ (IsRoot(r) \/ Valid(r))
\* seq is still the beginning of longer
Extends(longer, seq) ==
  Len(longer) >= Len(seq) /\ SubSeq(longer, 1, Len(seq)) = seq

\* C11, in every state: stdout holds one line for each request whose stdout
\* write has run and no other; only page views and valid submissions build an
\* entry, and once; healthz, unmatched and rejected requests leave nothing in
\* any sink; a finished page view or valid submission has its line unless the
\* write threw
C11_OnePerRequest ==
  /\ Len(stdout) = Cardinality({r \in ReqIds : Written(r)})
  /\ \A r \in ReqIds :
       /\ Cardinality(LinesOf(stdout, r)) <= 1
       /\ Cardinality({i \in 1..Len(trace[r]) : trace[r][i] = "build"}) <= 1
       /\ Written(r) => Recorded(r)
       /\ (req[r] /= Undef /\ ~Recorded(r)) =>
            /\ entry[r] = Undef
            /\ LinesOf(stdout, r) = {}
            /\ \A p \in Paths : LinesOf(files[p], r) = {}
       /\ (Recorded(r) /\ pc[r] = "done") =>
            (Written(r) \/ Has(trace[r], "stdout throws"))

\* C11, in every step: what stdout and each daily file hold is kept as it is,
\* new lines come after it and no file disappears
C11_AppendOnly ==
  /\ Extends(stdout', stdout)
  /\ \A p \in DOMAIN files :
       p \in DOMAIN files' /\ Extends(files'[p], files[p])

\* C11: the number of entries on stdout is the number of page views and valid
\* submissions whose logging has run, one entry per such request; GET /healthz,
\* unmatched routes and rejected payloads add none; stdout and the daily files
\* are append-only.
C11_OncePerRequest == []C11_OnePerRequest /\ [][C11_AppendOnly]_vars

\* two requests are recorded, both in the same .jsonl file, after one another
C11_Witness ==
  /\ Len(stdout) = 2
  /\ \E p \in Paths : IsJsonl(p) /\ Len(files[p]) = 2

AllowList == {"user-agent", "referer", "accept-language"}
\* the request carries a non-empty value under the name
Carries(q, name) ==
  name \in DOMAIN q.headers /\ IsStr(q.headers[name]) /\ q.headers[name].str /= ""
\* the headers member of an entry, or of its line, is the allow-listed part of
\* the headers of q
SelectedFrom(h, q) ==
  /\ IsObj(h)
  /\ DOMAIN h.obj \subseteq AllowList
  /\ \A name \in AllowList :
       /\ name \in DOMAIN h.obj <=> Carries(q, name)
       /\ name \in DOMAIN h.obj => h.obj[name] = q.headers[name]

\* C12: in every entry built by logVisit, and in its line on stdout, the keys
\* of headers are among user-agent, referer and accept-language; such a name
\* is a key exactly when the request carries a non-empty value for it, with
\* that value, whatever else the request carries.
C12_HeaderAllowList ==
  \A r \in ReqIds :
    /\ entry[r] /= Undef => SelectedFrom(entry[r].obj.headers, req[r])
    /\ \A i \in LinesOf(stdout, r) :
         SelectedFrom(stdout[i].line.json.obj.headers, req[r])

\* an entry on stdout with referer alone, of a request that carries an empty
\* user-agent, a referer and a cookie
C12_Witness ==
  \E r \in ReqIds : \E i \in LinesOf(stdout, r) :
    /\ DOMAIN stdout[i].line.json.obj.headers.obj = {"referer"}
    /\ DOMAIN req[r].headers = {"user-agent", "referer", "cookie"}
    /\ req[r].headers["user-agent"] = S("")

\* the comma-separated entries of a string, in order
RECURSIVE EntriesOf(_)
EntriesOf(cs) ==
  LET commas == {i \in 1..Len(cs) : cs[i] = ","}
  IN IF commas = {} THEN <<cs>>
     ELSE <<SubSeq(cs, 1, MinOf(commas) - 1)>>
          \o EntriesOf(SubSeq(cs, MinOf(commas) + 1, Len(cs)))
\* the entries of an x-forwarded-for value, string or array of strings
RECURSIVE ForwardedEntries(_)
ForwardedEntries(f) ==
  IF IsChars(f) THEN EntriesOf(f.chars)
  ELSE IF IsArr(f) /\ f.arr /= <<>>
    THEN ForwardedEntries(Head(f.arr)) \o ForwardedEntries(A(Tail(f.arr)))
  ELSE <<>>
Blank(cs) == \A i \in 1..Len(cs) : cs[i] \in Whitespace
NotBlank(cs) == ~Blank(cs)
\* the non-empty trimmed entries of the x-forwarded-for value of q
Usable(q) == SelectSeq(ForwardedEntries(header(q.headers, "x-forwarded-for")), NotBlank)
\* the entry without the blanks around it and without a leading ::ffff:
Stripped(cs) ==
  LET solid == {i \in 1..Len(cs) : cs[i] \notin Whitespace}
      t == SubSeq(cs, MinOf(solid), MaxOf(solid))
  IN IF Len(t) >= 7 /\ SubSeq(t, 1, 7) = <<":", ":", "f", "f", "f", "f", ":">>
       THEN SubSeq(t, 8, Len(t)) ELSE t
\* the socket address of q is missing or empty
NoSocket(q) == q.remoteAddress = Undef \/ Blank(q.remoteAddress.chars)
\* the hashedIp member of the entry built for r
HashedIp(r) == entry[r].obj.hashedIp

\* C13: hashedIp is null only when no IP could be resolved, that is when the
\* x-forwarded-for value has no non-empty trimmed entry and the socket address
\* is empty or missing; when the x-forwarded-for value has no usable entry the
\* address of the socket is the one hashed.
C13_NullOnlyWhenUnresolved ==
  \A r \in ReqIds :
    entry[r] /= Undef =>
      /\ HashedIp(r) = Null => (Usable(req[r]) = <<>> /\ NoSocket(req[r]))
      /\ (Usable(req[r]) = <<>> /\ ~NoSocket(req[r])) =>
           HashedIp(r) = hashIp(C(Stripped(req[r].remoteAddress.chars)))

\* C14: for an x-forwarded-for value of several comma-separated entries, the
\* first of them empty or blank or not, string or array, the IP resolved (and
\* hashed) is the first non-empty trimmed entry without a leading ::ffff:; it
\* is the empty string, hashed to null, when there is no candidate at all.
C14_FirstNonEmptyEntry ==
  \A r \in ReqIds :
    entry[r] /= Undef =>
      /\ Usable(req[r]) /= <<>> =>
           HashedIp(r) = hashIp(C(Stripped(Usable(req[r])[1])))
      /\ (Usable(req[r]) = <<>> /\ NoSocket(req[r])) => HashedIp(r) = Null

Built(r) == entry[r] /= Undef
\* a page view that tells its client by the socket address alone, a plain one
PlainSocket(r) ==
  /\ IsRoot(r)
  /\ "x-forwarded-for" \notin DOMAIN req[r].headers
  /\ ~NoSocket(req[r])
  /\ Stripped(req[r].remoteAddress.chars) = req[r].remoteAddress.chars

\* C15: hashedIp is null exactly when the resolved IP is empty; otherwise it
\* is the hex digest of the IP followed by the salt, which no other salt
\* gives; two requests get the same hashedIp exactly when they resolve to the
\* same IP; a GET / without x-forwarded-for from socket address A is logged
\* with the digest of A followed by the salt and the event "pageview".
C15_SaltedDigest ==
  /\ \A r \in ReqIds :
       Built(r) =>
         LET ip == resolveClientIp(req[r]).chars
         IN /\ HashedIp(r) = Null <=> ip = <<>>
            /\ ip /= <<>> =>
                 /\ HashedIp(r) = sha256Hex(ip \o IP_HASH_SALT.chars)
                 /\ \A other \in PairSalts :
                      (Truthy(other) /\ other /= IP_HASH_SALT) =>
                        HashedIp(r) /= sha256Hex(ip \o other.chars)
            /\ PlainSocket(r) =>
                 /\ HashedIp(r) =
                      sha256Hex(req[r].remoteAddress.chars \o IP_HASH_SALT.chars)
                 /\ entry[r].obj.event = S("pageview")
  /\ \A a, b \in ReqIds :
       (Built(a) /\ Built(b)) =>
         (HashedIp(a) = HashedIp(b)
            <=> resolveClientIp(req[a]) = resolveClientIp(req[b]))

\* two different requests of the same client, one told by x-forwarded-for and
\* one by an IPv4-mapped socket address, logged with the same digest
C15_Witness ==
  \E a, b \in ReqIds :
    /\ Built(a) /\ Built(b) /\ req[a] /= req[b]
    /\ "x-forwarded-for" \in DOMAIN req[a].headers
    /\ "x-forwarded-for" \notin DOMAIN req[b].headers
    /\ HashedIp(a) /= Null /\ HashedIp(a) = HashedIp(b)
    /\ LinesOf(stdout, a) /= {} /\ LinesOf(stdout, b) /= {}

\* the two requests are the same but for the address of the client
SameButAddress(q1, q2) ==
  /\ q1.method = q2.method /\ q1.originalUrl = q2.originalUrl /\ q1.body = q2.body
  /\ DOMAIN q1.headers \ {"x-forwarded-for"} = DOMAIN q2.headers \ {"x-forwarded-for"}
  /\ \A k \in DOMAIN q1.headers \ {"x-forwarded-for"} : q1.headers[k] = q2.headers[k]
\* an entry, or what reads back from its line, without hashedIp and timestamp
Redacted(e) == [k \in DOMAIN e.obj \ {"hashedIp", "timestamp"} |-> e.obj[k]]
\* a text block without its Timestamp and Hashed IP lines
RedactedText(block) ==
  LET Kept(l) == "label" \in DOMAIN l => l.label \notin {"Timestamp: ", "Hashed IP: "}
  IN SelectSeq(block.lines, Kept)
\* what the sink holds for r, with hashedIp and timestamp taken out
RedactedLines(seq, r, text) ==
  {IF text THEN RedactedText(seq[i].line) ELSE Redacted(seq[i].line.json) :
     i \in LinesOf(seq, r)}

\* cs occurs in the sequence of characters
Occurs(cs, in) ==
  \E i \in 1..(Len(in) - Len(cs) + 1) : SubSeq(in, i, i + Len(cs) - 1) = cs
\* some string of the value holds cs; a digest holds nothing of its input
RECURSIVE Mentions(_, _)
Mentions(v, cs) ==
  CASE IsChars(v) -> Occurs(cs, v.chars)
    [] IsObj(v) -> \E k \in DOMAIN v.obj : Mentions(v.obj[k], cs)
    [] IsArr(v) -> \E i \in 1..Len(v.arr) : Mentions(v.arr[i], cs)
    [] OTHER -> FALSE
\* some line of the text block holds cs
TextMentions(block, cs) ==
  \E i \in 1..Len(block.lines) :
    \/ "value" \in DOMAIN block.lines[i] /\ Mentions(block.lines[i].value, cs)
    \/ "json" \in DOMAIN block.lines[i] /\ Mentions(block.lines[i].json, cs)
\* cs is written somewhere: in an entry, on stdout, in a file or in a response
Exposed(cs) ==
  \/ \E r \in ReqIds : Built(r) /\ Mentions(entry[r], cs)
  \/ \E i \in 1..Len(stdout) : Mentions(stdout[i].line.json, cs)
  \/ \E p \in Paths : \E i \in 1..Len(files[p]) :
       IF IsText(p) THEN TextMentions(files[p][i].line, cs)
       ELSE Mentions(files[p][i].line.json, cs)
  \/ \E r \in ReqIds : res[r].status /= 0 /\ Mentions(res[r].body, cs)

\* C16: the address of the client and the salt reach the log through hashedIp
\* alone: two requests that differ in x-forwarded-for or socket address only
\* have entries, stdout lines and file lines that differ in hashedIp and
\* timestamp at most, and no entry, line, text block or response body holds
\* the resolved address or the salt.
C16_OnlyThroughHashedIp ==
  /\ \A a, b \in ReqIds :
       (a < b /\ req[a] /= Undef /\ req[b] /= Undef /\ SameButAddress(req[a], req[b])) =>
         /\ (Built(a) /\ Built(b)) => Redacted(entry[a]) = Redacted(entry[b])
         /\ (LinesOf(stdout, a) /= {} /\ LinesOf(stdout, b) /= {}) =>
              RedactedLines(stdout, a, FALSE) = RedactedLines(stdout, b, FALSE)
         /\ \A p, q \in Paths :
              (IsJsonl(p) = IsJsonl(q) /\ LinesOf(files[p], a) /= {}
                 /\ LinesOf(files[q], b) /= {}) =>
                RedactedLines(files[p], a, IsText(p)) = RedactedLines(files[q], b, IsText(q))
  /\ Truthy(IP_HASH_SALT) => ~Exposed(IP_HASH_SALT.chars)
  /\ \A r \in ReqIds :
       (req[r] /= Undef /\ Truthy(resolveClientIp(req[r]))) =>
         ~Exposed(resolveClientIp(req[r]).chars)

\* two page views of different clients, alike otherwise, both in the text file
C16_Witness ==
  \E a, b \in ReqIds : \E p \in Paths :
    /\ a /= b /\ Built(a) /\ Built(b) /\ SameButAddress(req[a], req[b])
    /\ HashedIp(a) /= HashedIp(b) /\ HashedIp(a) /= Null /\ HashedIp(b) /= Null
    /\ IsText(p) /\ LinesOf(files[p], a) /= {} /\ LinesOf(files[p], b) /= {}

\* C17: when consent is required, the page has made no POST /api/telemetry
\* and has no collectTelemetry at its fetch as long as the visitor has not
\* clicked the consent button, whatever they click.
C17_NoTelemetryBeforeConsent ==
  (page /= Undef /\ page.consentRequired /\ ~page.consentGranted) =>
    (page.fetched = <<>> /\ RunsAt("fetch") = {})

\* the request carries the payload and has been answered
Answered(r, body) == req[r] /= Undef /\ req[r].body = body /\ res[r].status /= 0
\* the details of the 400 response
Details(r) == member(res[r].body, "details")
\* the keys named by the unrecognized-keys messages
KeysNamed(messages) == UNION {m.keys : m \in {n \in messages : "keys" \in DOMAIN n}}
\* the field at the end of the path is an unrecognized key
IsUnknownKey(f) == f \in UnknownKeys
\* the paths the details spell out: the key of each field error, that key
\* followed by an unrecognized key named under it, and the unrecognized keys
\* of the form errors
PathsNamed(details) ==
  LET fields == member(details, "fieldErrors").obj
  IN {<<K(k)>> : k \in DOMAIN fields}
     \cup UNION {{<<K(k), K(u)>> : u \in KeysNamed(fields[k].messages)} : k \in DOMAIN fields}
     \cup {<<K(u)>> : u \in KeysNamed(member(details, "formErrors").messages)}
\* the details name the top-level key of the path: as a field error, or, for
\* an unrecognized key of the root, in a form error
TopNamed(details, f) ==
  \/ Head(f.path).key \in DOMAIN member(details, "fieldErrors").obj
  \/ /\ Len(f.path) = 1 /\ IsUnknownKey(f)
     /\ Head(f.path).key \in KeysNamed(member(details, "formErrors").messages)
\* nothing of request r is recorded
Unrecorded(r) ==
  /\ extra[r] = Undef /\ entry[r] = Undef /\ LinesOf(stdout, r) = {}
  /\ \A p \in Paths : LinesOf(files[p], r) = {}
\* a conforming payload is accepted and handed to logVisit unchanged
AcceptedUnchanged(r) ==
  \A b \in ConformingBodies :
    Answered(r, b) => /\ res[r].status /= 400
                      /\ member(extra[r], "telemetry") = b
\* a faulty payload is rejected as a whole
RejectedWhole(r, f) == res[r].status = 400 /\ Unrecorded(r)

\* C18 as stated: conforming payloads are accepted unchanged, and a payload
\* with an unrecognized key or a value outside its declared type, length,
\* count or range is rejected as a whole with the path of the offending field
\* named in the error.
C18_RejectsNamingPath ==
  \A r \in ReqIds :
    /\ AcceptedUnchanged(r)
    /\ \A f \in Faults :
         Answered(r, Faulty(f)) =>
           RejectedWhole(r, f) /\ f.path \in PathsNamed(Details(r))

\* C18: conforming payloads are accepted unchanged, and a payload with an
\* unrecognized key or a value outside its declared type, length, count or
\* range is rejected as a whole; the error names the top-level key of the
\* offending field (an unrecognized key of the root in a form error), not the
\* path below it.
C18_RejectsNamingTopLevelKey ==
  \A r \in ReqIds :
    /\ AcceptedUnchanged(r)
    /\ \A f \in Faults :
         Answered(r, Faulty(f)) =>
           RejectedWhole(r, f) /\ TopNamed(Details(r), f)

\* a negative width three levels down has been answered with 400
C18_Witness ==
  \E r \in ReqIds :
    /\ Answered(r, Faulty(At(<<K("hardware"), K("screen"), K("width")>>, N(-1))))
    /\ res[r].status = 400
    /\ DOMAIN member(Details(r), "fieldErrors").obj = {"hardware"}

\* the 500 of the error-handling middleware
GenericError == Response(500, "json", O([error |-> S("Internal Server Error")]))
\* the responses written for request r
Responses(r) == {i \in 1..Len(trace[r]) : trace[r][i] = "respond"}
\* an error reached the error-handling middleware for request r
Escaped(r) == req[r] /= Undef /\ Route(req[r]) = "error"
\* the error-handling middleware runs for request r in this step
Handles(r) == pc[r] = "error" /\ pc'[r] /= "error"
\* the step logs on console.error
LogsError(r) ==
  /\ Len(console'[r]) = Len(console[r]) + 1
  /\ console'[r][Len(console'[r])].level = "error"

\* once the middleware has run, the request has exactly one response
C19_OneResponse ==
  \A r \in ReqIds :
    (Escaped(r) /\ pc[r] = "done") => res[r] = GenericError /\ Cardinality(Responses(r)) = 1
\* the middleware logs, and answers if and only if nothing was sent
C19_Handles ==
  \A r \in ReqIds :
    Handles(r) =>
      /\ LogsError(r)
      /\ res[r].status = 0 => res'[r] = GenericError /\ trace'[r] = Append(trace[r], "respond")
      /\ res[r].status /= 0 => res'[r] = res[r] /\ trace'[r] = trace[r]

Stamps(r) == pc[r] = "awaitLogDir" /\ pc'[r] = "appendJsonl"
\* the append to the .jsonl file has settled and the one to the .txt file is
\* issued in this step
IssuesText(r) == pc[r] = "appendJsonl" /\ pc'[r] = "appendText"

\* C20 as stated: each append is issued to the file named after the UTC date
\* of the clock at that time, the date being taken again for each append, so
\* that after a .jsonl append that spans midnight the .txt append goes to the
\* file of the new day.
C20_DatePerAppend ==
  [][\A r \in ReqIds :
       /\ Stamps(r) => jsonlPath(dateStamp'[r]) = jsonlPath(Today)
       /\ IssuesText(r) => textPath(dateStamp[r]) = textPath(Today)]_vars

\* the lines of an entry are in the files of its date stamp only
C20_FilesOfOneDay ==
  \A r \in ReqIds : \A p, q \in Paths :
    (LinesOf(files[p], r) /= {} /\ LinesOf(files[q], r) /= {}) =>
      p.name[2] = q.name[2] /\ p.name[2] = dateStamp[r]
\* the date stamp is taken from the clock when the wait is over, and kept
StampedOnce ==
  \A r \in ReqIds :
    /\ Stamps(r) => dateStamp'[r] = Today
    /\ ~Stamps(r) => dateStamp'[r] = dateStamp[r]

\* C20, amended: the date is taken once for each entry, when persistLog
\* resumes after its wait for the log directory, and both appends of the
\* entry go to the files of that date: a wait that spans midnight leads to
\* the files of the new day, a .jsonl append that spans midnight leaves the
\* .txt block in the file of the day before.
C20_DatePerEntry == []C20_FilesOfOneDay /\ [][StampedOnce]_vars

\* the .txt block of an entry sits in the file of the day before today, next
\* to its .jsonl line
C20_Witness ==
  \E r \in ReqIds :
    /\ Has(trace[r], "jsonl") /\ Has(trace[r], "text")
    /\ LinesOf(files[textPath(dateStamp[r])], r) /= {}
    /\ dateStamp[r] /= Today

\* the sections of a block, in the order of the claim
SectionOrder ==
  <<"Timestamp: ", "Request: ", "Hashed IP: ", "Selected Headers:",
    "Parsed User Agent:", "Event: ", "Telemetry Snapshot:", "Additional Fields:", "-----">>
\* the sections that carry a pretty-printed value on the next line
Blocks == {"Selected Headers:", "Parsed User Agent:", "Telemetry Snapshot:", "Additional Fields:"}
\* the section is due for the entry; set is read as present with a truthy value
Due(e, section) ==
  CASE section = "Event: " -> Truthy(member(e, "event"))
    [] section = "Telemetry Snapshot:" -> Truthy(member(e, "telemetry"))
    [] section = "Additional Fields:" -> DOMAIN e.obj \ KnownFields /= {}
    [] OTHER -> TRUE
\* the labels of the lines of the block, its pretty-printed lines left out
Labels(block) ==
  LET Labelled(l) == "label" \in DOMAIN l
      Label(l) == l.label
      kept == SelectSeq(block.lines, Labelled)
  IN [i \in 1..Len(kept) |-> kept[i].label]
\* each heading of Blocks, and no other line, is followed by one pretty-printed line
WellBlocked(block) ==
  \A i \in 1..Len(block.lines) :
    LET l == block.lines[i]
    IN IF "label" \in DOMAIN l
         THEN l.label \in Blocks <=>
                (i < Len(block.lines) /\ "json" \in DOMAIN block.lines[i + 1])
         ELSE i > 1 /\ "label" \in DOMAIN block.lines[i - 1]
\* C21: the block of every entry in a text file has its sections in the
\* fixed order: Timestamp, Request, Hashed IP, Selected Headers and Parsed
\* User Agent and the separator always, Event iff event is set, Telemetry
\* Snapshot iff telemetry is set, Additional Fields iff the entry has a
\* member outside the eight known ones.
C21_FixedSections ==
  \A p \in Paths : IsText(p) =>
    \A i \in 1..Len(files[p]) :
      LET block == files[p][i].line
          e == entry[files[p][i].req]
          DueNow(section) == Due(e, section)
      IN /\ Labels(block) = SelectSeq(SectionOrder, DueNow)
         /\ WellBlocked(block)

\* a block with all nine sections is in a text file
C21_Witness ==
  \E p \in Paths : IsText(p) /\ \E i \in 1..Len(files[p]) :
    /\ Labels(files[p][i].line) = SectionOrder
    /\ DOMAIN entry[files[p][i].req].obj \ KnownFields /= {}

\* persistLog of r is suspended at its await of logDirReadyPromise
Suspended(r) == pc[r] = "awaitLogDir"
\* an append of r has been issued or has settled
AppendIssued(r) ==
  \/ pc[r] \in {"appendJsonl", "appendText"}
  \/ Has(trace[r], "jsonl") \/ Has(trace[r], "jsonl fails")
  \/ Has(trace[r], "text") \/ Has(trace[r], "text fails")
\* while the creation is not over nothing is appended, and a suspended
\* persistLog has written its line to stdout
C22_NothingBeforeMkdir ==
  /\ logDirReady /= "resolved" =>
       files = <<>> /\ \A r \in ReqIds : ~AppendIssued(r)
  /\ \A r \in ReqIds :
       Suspended(r) => LinesOf(stdout, r) /= {} /\ logDirReady /= "null"
\* a suspended persistLog goes on only once the creation has succeeded, and
\* a failed creation stays failed
C22_ResumesWhenResolved ==
  /\ \A r \in ReqIds : (Suspended(r) /\ ~Suspended(r)') => logDirReady = "resolved"
  /\ logDirReady = "failed" => logDirReady' = "failed"

\* C22: no append to a .jsonl or .txt file is issued before the creation of
\* the log directory has succeeded: a persistLog called while it is pending
\* has written to stdout and waits, goes on when the creation resolves, and
\* never goes on when it fails.
C22_AppendsAfterMkdir == []C22_NothingBeforeMkdir /\ [][C22_ResumesWhenResolved]_vars

\* the creation is pending, an entry is on stdout and its persistLog waits
C22_Witness ==
  /\ logDirReady = "pending" /\ files = <<>>
  /\ \E r \in ReqIds : Suspended(r) /\ LinesOf(stdout, r) /= {}

\* the files that hold a line of r
FilesOf(r) == {p \in Paths : LinesOf(files[p], r) /= {}}
\* the date in the name of the file
DateOf(path) == path.name[2]

\* C23: the .jsonl file and the .txt file of an entry carry the same date,
\* also when midnight passes between the two appends, and that date is not
\* before the UTC date of the entry's timestamp.
C23_OneStampNotBeforeTimestamp ==
  \A r \in ReqIds :
    /\ \A p, q \in FilesOf(r) : (IsJsonl(p) /\ IsText(q)) => DateOf(p) = DateOf(q)
    /\ \A p \in FilesOf(r) : DateOf(p).date >= BuiltDate(r).date

\* an entry stamped on the day of its timestamp has its line and its block
\* in the files of that day, and the clock shows a later day
C23_Witness ==
  \E r \in ReqIds : \E p, q \in FilesOf(r) :
    /\ IsJsonl(p) /\ IsText(q)
    /\ DateOf(p) = BuiltDate(r) /\ DateOf(q) = BuiltDate(r)
    /\ Today.date > DateOf(q).date

\* the route the request is for, whatever express.json makes of its body
RouteOf(q) == Route([q EXCEPT !.body = EmptyObj])
\* the statuses the claim allows for the route
StatusesOf(route) ==
  CASE route = "healthz" -> {200}
    [] route = "root" -> {200}
    [] route = "telemetry" -> {204, 400, 500}
    [] OTHER -> {404}
\* the handling of r has begun and no response has been sent
Unanswered(r) == req[r] /= Undef /\ res[r].status = 0
\* nothing more will run for r: its handler is over or the process has ended
Over(r) == req[r] /= Undef /\ (pc[r] = "done" \/ phase = "exited")

\* C24 as stated: every request gets exactly one response, with the status of
\* its route: 200 for GET /healthz and GET /, 204, 400 or 500 for POST
\* /api/telemetry, 404 for any other; none is left without a response and
\* none gets a second one.
C24_ExactlyOneByRoute ==
  \A r \in ReqIds :
    /\ Cardinality(Responses(r)) <= 1
    /\ ~Unanswered(r) /\ req[r] /= Undef => res[r].status \in StatusesOf(RouteOf(req[r]))
    /\ Over(r) => ~Unanswered(r)

\* at most one response, with the status of the route unless express.json
\* rejected the body; a finished handler has answered, and the process ends
\* with a request unanswered only for a telemetry submission that waits for
\* the log directory
C24_AtMostOne ==
  \A r \in ReqIds :
    /\ Cardinality(Responses(r)) <= 1
    /\ res[r].status /= 0 <=> Responses(r) /= {}
    /\ (req[r] /= Undef /\ res[r].status /= 0) =>
         IF Escaped(r) THEN res[r].status = 500
         ELSE res[r].status \in StatusesOf(Route(req[r]))
    /\ pc[r] = "done" => res[r].status /= 0
    /\ (Over(r) /\ Unanswered(r)) =>
         /\ Route(req[r]) = "telemetry" /\ Suspended(r)
         /\ logDirReady = "failed"
\* a response, once sent, stays as it is
C24_NoSecond ==
  \A r \in ReqIds : res[r].status /= 0 => res'[r] = res[r]

\* C24, amended: every request gets at most one response, from one handler:
\* 500 from the error-handling middleware when express.json rejects its body,
\* whatever the route, and otherwise 200 for GET /healthz and GET /, 204, 400
\* or 500 for POST /api/telemetry, 404 for any other; a handler that is over
\* has sent exactly one, and the only request left without one is a telemetry
\* submission waiting for the log directory when its creation fails.
C24_AtMostOneByRoute == []C24_AtMostOne /\ [][C24_NoSecond]_vars

\* the process has ended with a telemetry submission left without a response
C24_Witness ==
  \E r \in ReqIds :
    /\ phase = "exited" /\ Unanswered(r)
    /\ Route(req[r]) = "telemetry" /\ LinesOf(stdout, r) /= {}

====
